---------------------------- MODULE Spec2Model ----------------------------
(***************************************************************************)
(* Model of the propagation-analysis scripts under                         *)
(* src/Assets/Project/Scripts/Utils.                                       *)
(*                                                                         *)
(* Numbers.  Powers, losses and errors are fixed-point integers in         *)
(* milli-dB (1 dB = 1000).  Distances are metres, frequencies MHz.  A      *)
(* missing / not-a-number cell is the out-of-band value NaN; arithmetic    *)
(* propagates it the way IEEE arithmetic does.                             *)
(***************************************************************************)
EXTENDS Integers, Sequences, FiniteSets, TLC

VARIABLES
    pc,        \* position of the running script
    data,      \* the loaded DataFrame: a sequence of rows
    result,    \* the value returned by the metrics routine that ran
    warnings,  \* the [WARN] lines printed so far
    files,     \* the input files / scenario folders of a batch run
    idx,       \* loop index of the batch main loop
    outputs,   \* files written to disk: a function from path to content
    all_norm,  \* ResultsAnalyzer.main: frames loaded so far
    reported,  \* per-unit failure reports printed so far
    exit,      \* how the invocation ended
    script,    \* which script is running
    folders,       \* the CSV content of each scenario folder
    summary_rows,  \* the scenario mains: summary rows collected so far
    printed        \* the scenario mains: the summary table printed at the end

vars ==
    <<pc, data, result, warnings, files, idx, outputs, all_norm, reported, exit, script,
      folders, summary_rows, printed>>

metricVars == <<data, result, warnings>>

scenarioVars == <<folders, summary_rows, printed>>

batchVars == <<files, idx, outputs, all_norm, reported, exit, script, scenarioVars>>

---------------------------------------------------------------------------
(* Bounds of the model *)

MaxRows == 3

MaxFiles == 3

MaxGridRows == 4

(* Values a cell can take *)

\* float("nan"): an out-of-band value, never the result of integer arithmetic here
NaN == 999999999

Models == {"FreeSpace", "LogD", "RayTracing"}

\* sorted(...) over the model names: their lexicographic order
ModelOrder == <<"FreeSpace", "LogD", "RayTracing">>

REFERENCE_MODEL == "FreeSpace"

Distances == {10, 20}

RxValues == {-20000, -25000, NaN}

TxFrequencies == {700}

TxPowers == {30000}

THRESHOLDS == <<-95000, -100000, -110000>>

Rows ==
    [PropagationModel : Models, Distance : Distances, RxSignalStrength : RxValues,
     TxFrequency : TxFrequencies, TxPower : TxPowers]

\* rows of exports in which every cell is filled in (two models, one run each
\* or several runs concatenated)
GridRows ==
    [PropagationModel : {"FreeSpace", "LogD"}, Distance : Distances,
     RxSignalStrength : {-20000, -25000},
     TxFrequency : TxFrequencies, TxPower : TxPowers]

---------------------------------------------------------------------------
(* Floating-point helpers *)

IsNaN(x) == x = NaN

FSub(a, b) == IF IsNaN(a) \/ IsNaN(b) THEN NaN ELSE a - b

\* x ** 2 of a milli-dB value, in milli-dB squared
FSquare(a) == IF IsNaN(a) THEN NaN ELSE a * a

RECURSIVE SumSeq(_)
SumSeq(xs) == IF xs = <<>> THEN 0 ELSE Head(xs) + SumSeq(Tail(xs))

HasNaN(xs) == \E i \in DOMAIN xs : IsNaN(xs[i])

DropNaN(xs) == SelectSeq(xs, LAMBDA x : ~IsNaN(x))

\* pandas Series.mean(): skipna=True, NaN when nothing is left
PandasMean(xs) ==
    LET valid == DropNaN(xs)
    IN  IF valid = <<>> THEN NaN ELSE SumSeq(valid) \div Len(valid)

\* numpy.mean(): NaN propagates, the mean of an empty array is NaN
NumpyMean(xs) ==
    IF xs = <<>> \/ HasNaN(xs) THEN NaN ELSE SumSeq(xs) \div Len(xs)

RECURSIVE IsqrtIter(_, _, _)
IsqrtIter(x, lo, hi) ==
    IF lo >= hi THEN lo
    ELSE LET mid == (lo + hi + 1) \div 2
         IN  IF mid * mid <= x THEN IsqrtIter(x, mid, hi)
                               ELSE IsqrtIter(x, lo, mid - 1)

\* math.sqrt / numpy.sqrt on a non-negative fixed-point square
FSqrt(x) == IF IsNaN(x) THEN NaN ELSE IsqrtIter(x, 0, 46340)

\* 20*log10(x) in milli-dB, for the arguments the model uses
Db20Log10(x) ==
    CASE x = 1    -> 0
      [] x = 5    -> 13979
      [] x = 10   -> 20000
      [] x = 20   -> 26021
      [] x = 30   -> 29542
      [] x = 50   -> 33979
      [] x = 100  -> 40000
      [] x = 150  -> 43522
      [] x = 700  -> 56902
      [] x = 2100 -> 66444
      [] x = 3500 -> 70881

\* 20*log10(4*pi*1e6 / C) with C = 3e8, in milli-dB
WavelengthConstDb == -27558

\* fspl_db of S2_error_metrics.py: 10*log10((4*pi*d/lambda)**2), lambda = C/(f*1e6);
\* the square drops the sign of the distance and of the wavelength
fspl_db(distance_m, frequency_mhz) ==
    WavelengthConstDb
        + Db20Log10(IF distance_m < 0 THEN -distance_m ELSE distance_m)
        + Db20Log10(IF frequency_mhz < 0 THEN -frequency_mhz ELSE frequency_mhz)

\* fspl_db of S2_error_metrics.py raises: math.log10(0.0) is a ValueError, and
\* a zero frequency is a ZeroDivisionError or, for a numpy zero, an infinite
\* wavelength and again log10(0.0)
fspl_db_raises(distance_m, frequency_mhz) == distance_m = 0 \/ frequency_mhz = 0

\* coverage_ratio: np.mean(pr_dbm >= threshold) * 100, in milli-percent;
\* a NaN sample compares False
coverage_ratioBelow(pr_dbm, threshold_dbm) ==
    IF pr_dbm = <<>> THEN NaN
    ELSE (Len(SelectSeq(pr_dbm, LAMBDA p : ~IsNaN(p) /\ p <= threshold_dbm))
            * 100000) \div Len(pr_dbm)

coverage_ratio(pr_dbm, threshold_dbm) ==
    IF pr_dbm = <<>> THEN NaN
    ELSE (Len(SelectSeq(pr_dbm, LAMBDA p : ~IsNaN(p) /\ p >= threshold_dbm))
            * 100000) \div Len(pr_dbm)

---------------------------------------------------------------------------
(* DataFrame helpers *)

\* df[df["PropagationModel"] == model]
GroupOf(df, model) == SelectSeq(df, LAMBDA r : r.PropagationModel = model)

Column(df, col) == [i \in DOMAIN df |-> df[i][col]]

\* sorted(df["PropagationModel"].unique())
SortedModels(df) ==
    SelectSeq(ModelOrder, LAMBDA m : \E i \in DOMAIN df : df[i].PropagationModel = m)

RECURSIVE MatchRow(_, _)
MatchRow(l, right) ==
    IF right = <<>> THEN <<>>
    ELSE (IF Head(right).Distance = l.Distance
          THEN <<[model |-> l.RxSignalStrength, ref |-> Head(right).RxSignalStrength]>>
          ELSE <<>>) \o MatchRow(l, Tail(right))

\* a join that ignores the key: every left row paired with every right row
MergeCross(left, right) ==
    [k \in 1 .. Len(left) * Len(right) |->
        [model |-> left[((k - 1) \div Len(right)) + 1].RxSignalStrength,
         ref   |-> right[((k - 1) % Len(right)) + 1].RxSignalStrength]]

\* a join that keeps, for every left row, only the first right row that matches
MergeFirst(left, right) ==
    LET hits(l) == {j \in DOMAIN right : right[j].Distance = l.Distance}
        first(l) == CHOOSE j \in hits(l) : \A k \in hits(l) : j <= k
        kept    == SelectSeq(left, LAMBDA l : hits(l) # {})
    IN  [i \in DOMAIN kept |->
            [model |-> kept[i].RxSignalStrength,
             ref   |-> right[first(kept[i])].RxSignalStrength]]

\* pd.merge(left, right, on="Distance", how="inner"): one output row for every
\* pair (left row, right row) with equal Distance, in left order
RECURSIVE Merge(_, _)
Merge(left, right) ==
    IF left = <<>> THEN <<>>
    ELSE MatchRow(Head(left), right) \o Merge(Tail(left), right)

\* the error with its operands exchanged: reference minus model
ErrOfSwapped(merged) == [i \in DOMAIN merged |-> FSub(merged[i].ref, merged[i].model)]

\* err = merged["RxSignalStrength"] - merged["RefPr"]
ErrOf(merged) == [i \in DOMAIN merged |-> FSub(merged[i].model, merged[i].ref)]

SquaresOf(err) == [i \in DOMAIN err |-> FSquare(err[i])]

---------------------------------------------------------------------------
(* compute_metrics_vs_reference: Plot_Lte_5g.py, Plots_s2.py,              *)
(* S2_plot_and_metrics.py (three identical copies)                         *)

NoReferenceWarning(reference_model) == [kind |-> "NoReference", model |-> reference_model]

NoOverlapWarning(model) == [kind |-> "NoOverlap", model |-> model]

\* rmse = math.sqrt((err ** 2).mean()); bias = err.mean()   (pandas means)
VsRefEntry(model, merged) ==
    LET err == ErrOf(merged)
    IN  [model |-> model,
         rmse  |-> FSqrt(PandasMean(SquaresOf(err))),
         bias  |-> PandasMean(err)]

RECURSIVE VsRefLoop(_, _, _, _)
VsRefLoop(df, reference_model, ref, models) ==
    IF models = <<>> THEN [metrics |-> <<>>, warn |-> <<>>]
    ELSE LET model  == Head(models)
             rest   == VsRefLoop(df, reference_model, ref, Tail(models))
             merged == Merge(GroupOf(df, model), ref)
         IN  IF model = reference_model THEN rest
             ELSE IF merged = <<>>
                  THEN [metrics |-> rest.metrics,
                        warn    |-> <<NoOverlapWarning(model)>> \o rest.warn]
                  ELSE [metrics |-> <<VsRefEntry(model, merged)>> \o rest.metrics,
                        warn    |-> rest.warn]

compute_metrics_vs_reference(df, reference_model) ==
    LET ref == GroupOf(df, reference_model)
    IN  IF ref = <<>>
        THEN [metrics |-> <<>>, warn |-> <<NoReferenceWarning(reference_model)>>]
        ELSE VsRefLoop(df, reference_model, ref, SortedModels(df))

---------------------------------------------------------------------------
(* compute_metrics of S2_error_metrics.py *)

\* the RMSE / bias branch with a no-overlap model scored as a perfect match
AlignedErrorZero(model, sub, ref_df, reference_model) ==
    IF model = reference_model \/ ref_df = <<>>
    THEN [rmse |-> IF ref_df = <<>> THEN NaN ELSE 0,
          bias |-> IF ref_df = <<>> THEN NaN ELSE 0,
          warn |-> <<>>]
    ELSE LET merged == Merge(sub, ref_df)
             err    == ErrOf(merged)
         IN  IF merged = <<>>
             THEN [rmse |-> 0, bias |-> 0, warn |-> <<NoOverlapWarning(model)>>]
             ELSE [rmse |-> FSqrt(NumpyMean(SquaresOf(err))),
                   bias |-> NumpyMean(err),
                   warn |-> <<>>]

\* the RMSE / bias branch, lines 90-111: numpy means over the merged pairs
AlignedError(model, sub, ref_df, reference_model) ==
    IF model = reference_model \/ ref_df = <<>>
    THEN [rmse |-> IF ref_df = <<>> THEN NaN ELSE 0,
          bias |-> IF ref_df = <<>> THEN NaN ELSE 0,
          warn |-> <<>>]
    ELSE LET merged == Merge(sub, ref_df)
             err    == ErrOf(merged)
         IN  IF merged = <<>>
             THEN [rmse |-> NaN, bias |-> NaN, warn |-> <<NoOverlapWarning(model)>>]
             ELSE [rmse |-> FSqrt(NumpyMean(SquaresOf(err))),
                   bias |-> NumpyMean(err),
                   warn |-> <<>>]

MetricsRow(model, sub, ref_df, reference_model) ==
    LET freq_mhz     == sub[1].TxFrequency
        tx_power_dbm == sub[1].TxPower
        pr_sim       == Column(sub, "RxSignalStrength")
        pl_model     == [i \in DOMAIN sub |-> FSub(tx_power_dbm, pr_sim[i])]
        excess_pl    == [i \in DOMAIN sub |->
                            FSub(pl_model[i], fspl_db(sub[i].Distance, freq_mhz))]
        aligned      == AlignedError(model, sub, ref_df, reference_model)
    IN  [row  |-> [Model            |-> model,
                   Freq_MHz         |-> freq_mhz,
                   TxPower_dBm      |-> tx_power_dbm,
                   N_Samples        |-> Len(sub),
                   Mean_Pr_dBm      |-> NumpyMean(pr_sim),
                   Mean_PL_dB       |-> NumpyMean(pl_model),
                   Mean_ExcessPL_dB |-> NumpyMean(excess_pl),
                   RMSE             |-> aligned.rmse,
                   Bias             |-> aligned.bias,
                   Coverage         |-> [t \in DOMAIN THRESHOLDS |->
                                            coverage_ratio(pr_sim, THRESHOLDS[t])]],
         warn |-> aligned.warn]

RECURSIVE MetricsLoop(_, _, _, _)
MetricsLoop(df, reference_model, ref_df, models) ==
    IF models = <<>> THEN [rows |-> <<>>, warn |-> <<>>]
    ELSE LET model == Head(models)
             sub   == GroupOf(df, model)
             rest  == MetricsLoop(df, reference_model, ref_df, Tail(models))
             one   == MetricsRow(model, sub, ref_df, reference_model)
         IN  IF sub = <<>> THEN rest
             ELSE [rows |-> <<one.row>> \o rest.rows, warn |-> one.warn \o rest.warn]

compute_metrics(df, reference_model) ==
    LET ref_df == GroupOf(df, reference_model)
        loop   == MetricsLoop(df, reference_model, ref_df, SortedModels(df))
    IN  [rows |-> loop.rows,
         warn |-> (IF ref_df = <<>> THEN <<NoReferenceWarning(reference_model)>> ELSE <<>>)
                     \o loop.warn]

---------------------------------------------------------------------------
(* compute_metrics of S2_plot_and_metrics.py: RMSE / bias against the      *)
(* analytical free-space received power, not against reference rows        *)

NoValidWarning(model) == [kind |-> "NoValidRx", model |-> model]

\* fspl_db of S2_plot_and_metrics: d = np.maximum(distance_m, 1e-3)
fspl_db_clamped(distance_m, frequency_mhz) ==
    IF IsNaN(distance_m) THEN NaN
    ELSE WavelengthConstDb
            + (IF distance_m <= 0 THEN -60000 ELSE Db20Log10(distance_m))
            + Db20Log10(frequency_mhz)

\* the default thresholds=(-90, -100, -110), also passed by main
PlotThresholds == <<-90000, -100000, -110000>>

FsplMetricsRow(model, sub) ==
    LET freq_mhz     == sub[1].TxFrequency
        tx_power_dbm == sub[1].TxPower
        pr_sim       == Column(sub, "RxSignalStrength")
        valid        == SelectSeq(sub, LAMBDA r : ~IsNaN(r.RxSignalStrength))
        pr_valid     == Column(valid, "RxSignalStrength")
        pl_model     == [i \in DOMAIN valid |-> FSub(tx_power_dbm, pr_valid[i])]
        pl_fspl      == [i \in DOMAIN valid |->
                            fspl_db_clamped(valid[i].Distance, freq_mhz)]
        excess_pl    == [i \in DOMAIN valid |-> FSub(pl_model[i], pl_fspl[i])]
        pr_ref       == [i \in DOMAIN valid |-> FSub(tx_power_dbm, pl_fspl[i])]
        err          == [i \in DOMAIN valid |-> FSub(pr_valid[i], pr_ref[i])]
        none         == valid = <<>>
    IN  [row  |-> [Model            |-> model,
                   Freq_MHz         |-> freq_mhz,
                   TxPower_dBm      |-> tx_power_dbm,
                   N_Samples        |-> Len(sub),
                   Mean_Pr_dBm      |-> IF none THEN NaN ELSE NumpyMean(pr_valid),
                   Mean_PL_dB       |-> IF none THEN NaN ELSE NumpyMean(pl_model),
                   Mean_ExcessPL_dB |-> IF none THEN NaN ELSE NumpyMean(excess_pl),
                   RMSE             |-> IF none THEN NaN
                                        ELSE FSqrt(NumpyMean(SquaresOf(err))),
                   Bias             |-> IF none THEN NaN ELSE NumpyMean(err),
                   Coverage         |-> [t \in DOMAIN PlotThresholds |->
                                            coverage_ratio(pr_sim, PlotThresholds[t])]],
         warn |-> IF none THEN <<NoValidWarning(model)>> ELSE <<>>]

RECURSIVE FsplMetricsLoop(_, _)
FsplMetricsLoop(df, models) ==
    IF models = <<>> THEN [rows |-> <<>>, warn |-> <<>>]
    ELSE LET model == Head(models)
             sub   == GroupOf(df, model)
             rest  == FsplMetricsLoop(df, Tail(models))
             one   == FsplMetricsRow(model, sub)
         IN  IF sub = <<>> THEN rest
             ELSE [rows |-> <<one.row>> \o rest.rows, warn |-> one.warn \o rest.warn]

compute_metrics_s2plot(df, reference_model) ==
    LET ref_df == GroupOf(df, reference_model)
        loop   == FsplMetricsLoop(df, SortedModels(df))
    IN  [rows |-> loop.rows,
         warn |-> (IF ref_df = <<>> THEN <<NoReferenceWarning(reference_model)>> ELSE <<>>)
                     \o loop.warn]

---------------------------------------------------------------------------
(* Input files of the batch scripts.  A file is a stem (its name without   *)
(* ".csv") and a table; a table that pd.read_csv cannot parse is marked    *)
(* unreadable.  A buildings cell carries its pandas type.                  *)

IntCell(v) == [type |-> "int", val |-> v]

StrCell(v) == [type |-> "str", val |-> v]

BoolCell(v) == [type |-> "bool", val |-> v]

\* a cell of a float64 column, in thousandths; NaN is a missing value
FloatCell(v) == [type |-> "float", val |-> v]

\* header of the simulator's export, as listed in Plot.py lines 21-23
UnityExport ==
    [readable |-> TRUE,
     columns  |-> <<"scenario", "propagation_model", "rx_signal_strength_dbm",
                    "tx_power_dbm", "tx_frequency_mhz", "distance_m", "buildings_on">>,
     rows     |-> << [scenario |-> "S1", propagation_model |-> "FreeSpace",
                      rx_signal_strength_dbm |-> -20000, tx_power_dbm |-> 30000,
                      tx_frequency_mhz |-> 700, distance_m |-> 10,
                      buildings_on |-> BoolCell(TRUE)],
                     [scenario |-> "S1", propagation_model |-> "FreeSpace",
                      rx_signal_strength_dbm |-> -25000, tx_power_dbm |-> 30000,
                      tx_frequency_mhz |-> 700, distance_m |-> 20,
                      buildings_on |-> BoolCell(FALSE)] >>]

\* the columns documented in MorePlots.py lines 14-17
RsrpExport ==
    [readable |-> TRUE,
     columns  |-> <<"scenario", "model", "buildings_on", "frequency_mhz",
                    "distance_m", "rsrp_dbm", "tx_power_dbm">>,
     rows     |-> << [scenario |-> "S2", model |-> "LogD", buildings_on |-> IntCell(1),
                      frequency_mhz |-> 700, distance_m |-> 10, rsrp_dbm |-> -25000,
                      tx_power_dbm |-> 30000],
                     [scenario |-> "S2", model |-> "LogD", buildings_on |-> IntCell(0),
                      frequency_mhz |-> 700, distance_m |-> 20, rsrp_dbm |-> -25000,
                      tx_power_dbm |-> 30000] >>]

\* received power and frequency only: no distance column, no positions
NoDistance ==
    [readable |-> TRUE,
     columns  |-> <<"RSRP", "freq_hz">>,
     rows     |-> << [RSRP |-> -20000, freq_hz |-> 700000000],
                     [RSRP |-> -25000, freq_hz |-> 700000000] >>]

\* distance has to be derived from the six position columns
Positions ==
    [readable |-> TRUE,
     columns  |-> <<"rsrp_dbm", "rx_x", "rx_y", "rx_z", "tx_x", "tx_y", "tx_z">>,
     rows     |-> << [rsrp_dbm |-> -20000, rx_x |-> 3, rx_y |-> 4, rx_z |-> 0,
                      tx_x |-> 0, tx_y |-> 0, tx_z |-> 0],
                     [rsrp_dbm |-> -25000, rx_x |-> 6, rx_y |-> 8, rx_z |-> 0,
                      tx_x |-> 0, tx_y |-> 0, tx_z |-> 0] >>]

\* some position columns are missing
PartialPositions ==
    [readable |-> TRUE,
     columns  |-> <<"rx_power", "rx_x", "rx_y", "tx_x">>,
     rows     |-> << [rx_power |-> -20000, rx_x |-> 3, rx_y |-> 4, tx_x |-> 0],
                     [rx_power |-> -25000, rx_x |-> 6, rx_y |-> 8, tx_x |-> 0] >>]

\* no received-power column under any alias
NoPower ==
    [readable |-> TRUE,
     columns  |-> <<"model", "distance_m", "frequency_mhz">>,
     rows     |-> << [model |-> "Hata", distance_m |-> 10, frequency_mhz |-> 700] >>]

\* path loss and transmit power, from which MorePlots derives the RSRP
PathLossOnly ==
    [readable |-> TRUE,
     columns  |-> <<"pl_db", "tx_power_dbm", "distance_m", "frequency_mhz">>,
     rows     |-> << [pl_db |-> 50000, tx_power_dbm |-> 30000, distance_m |-> 10,
                      frequency_mhz |-> 700] >>]

\* not a CSV table: pd.read_csv raises
Unreadable == [readable |-> FALSE, columns |-> <<>>, rows |-> <<>>]

Tables ==
    {UnityExport, RsrpExport, NoDistance, Positions, PartialPositions, NoPower,
     PathLossOnly, Unreadable}

---------------------------------------------------------------------------
(* ResultsAnalyzer.py: column resolution and normalisation *)

None == "<None>"

\* str.lower() on the column names and aliases of the model
Lower(name) ==
    CASE name = "RSRP"                  -> "rsrp"
      [] name = "currentSignalStrength" -> "currentsignalstrength"
      [] name = "modelName"             -> "modelname"
      [] name = "buildingsEnabled"      -> "buildingsenabled"
      [] name = "transmitterPower"      -> "transmitterpower"
      [] name \in {"rxX", "rxY", "rxZ", "txX", "txY", "txZ"} ->
            (CASE name = "rxX" -> "rxx" [] name = "rxY" -> "rxy" [] name = "rxZ" -> "rxz"
               [] name = "txX" -> "txx" [] name = "txY" -> "txy" [] name = "txZ" -> "txz")
      [] OTHER -> name

SetMax(S) == CHOOSE x \in S : \A y \in S : y <= x

pick_colExact(columns, candidates) ==
    LET hits == {j \in DOMAIN candidates :
                    \E i \in DOMAIN columns : columns[i] = candidates[j]}
    IN  IF hits = {} THEN None
        ELSE candidates[CHOOSE j \in hits : \A k \in hits : j <= k]

\* lowmap keeps, for one lower-cased name, the last column that has it
RECURSIVE pick_col(_, _)
pick_col(columns, candidates) ==
    IF candidates = <<>> THEN None
    ELSE LET hits == {i \in DOMAIN columns : Lower(columns[i]) = Lower(Head(candidates))}
         IN  IF hits # {} THEN columns[SetMax(hits)]
             ELSE pick_col(columns, Tail(candidates))

ColumnOf(t, name) == [i \in DOMAIN t.rows |-> t.rows[i][name]]

\* np.arange(len(df))
Arange(t) == [i \in DOMAIN t.rows |-> i - 1]

\* a normaliser whose fallback distance is zero for every row
ensure_distanceZero(t, rx_xyz_cols, tx_xyz_cols) ==
    LET dist_col == pick_col(t.columns, <<"distance_m", "distance", "rx_tx_distance_m">>)
    IN  IF dist_col # None THEN ColumnOf(t, dist_col)
        ELSE IF \A k \in 1 .. 3 : rx_xyz_cols[k] # None /\ tx_xyz_cols[k] # None
        THEN [i \in DOMAIN t.rows |->
                FSqrt(SumSeq([k \in 1 .. 3 |->
                    FSquare(t.rows[i][rx_xyz_cols[k]] - t.rows[i][tx_xyz_cols[k]])]))]
        ELSE [i \in DOMAIN t.rows |-> 0]

ensure_distance(t, rx_xyz_cols, tx_xyz_cols) ==
    LET dist_col == pick_col(t.columns, <<"distance_m", "distance", "rx_tx_distance_m">>)
    IN  IF dist_col # None THEN ColumnOf(t, dist_col)
        ELSE IF \A k \in 1 .. 3 : rx_xyz_cols[k] # None /\ tx_xyz_cols[k] # None
        THEN [i \in DOMAIN t.rows |->
                FSqrt(SumSeq([k \in 1 .. 3 |->
                    FSquare(t.rows[i][rx_xyz_cols[k]] - t.rows[i][tx_xyz_cols[k]])]))]
        ELSE Arange(t)

RECURSIVE InsertSorted(_, _)
InsertSorted(x, xs) ==
    IF xs = <<>> THEN <<x>>
    ELSE IF x <= Head(xs) THEN <<x>> \o xs
    ELSE <<Head(xs)>> \o InsertSorted(x, Tail(xs))

RECURSIVE SortAscending(_)
SortAscending(xs) == IF xs = <<>> THEN <<>> ELSE InsertSorted(Head(xs), SortAscending(Tail(xs)))

\* Series.median(), NaN for an empty column
Median(xs) ==
    LET srt == SortAscending(xs)
        n   == Len(xs)
    IN  IF n = 0 THEN NaN
        ELSE IF n % 2 = 1 THEN srt[(n + 1) \div 2]
        ELSE (srt[n \div 2] + srt[(n \div 2) + 1]) \div 2

ensure_frequency_mhz(t) ==
    LET f_hz  == pick_col(t.columns, <<"frequency_hz", "freq_hz">>)
        f_mhz == pick_col(t.columns, <<"frequency_mhz", "freq_mhz">>)
        f     == pick_col(t.columns, <<"frequency">>)
    IN  IF f_mhz # None THEN ColumnOf(t, f_mhz)
        ELSE IF f_hz # None THEN [i \in DOMAIN t.rows |-> t.rows[i][f_hz] \div 1000000]
        ELSE IF f # None
        THEN LET vals == ColumnOf(t, f)
                 med  == Median(vals)
             IN  [i \in DOMAIN vals |->
                    IF ~IsNaN(med) /\ med > 100000 THEN vals[i] \div 1000000 ELSE vals[i]]
        ELSE [i \in DOMAIN t.rows |-> 2100]

\* 32.44, in milli-dB
EmpiricalConstDb == 32440

\* fspl_db of ResultsAnalyzer.py: 32.44 + 20 log10(f_MHz) + 20 log10(d_km), with
\* d clamped to 1e-3 m and f to 1e-6 MHz
\* np.maximum and np.log10 hand a NaN on
fspl_db_empirical(distance_m, frequency_mhz) ==
    IF IsNaN(distance_m) \/ IsNaN(frequency_mhz) THEN NaN
    ELSE EmpiricalConstDb
            + (IF frequency_mhz <= 0 THEN -120000 ELSE Db20Log10(frequency_mhz))
            + (IF distance_m <= 0 THEN -60000 ELSE Db20Log10(distance_m)) - 60000

\* _fspl_db of MorePlots.py: 32.44 + 20 log10(max(d, 1e-6) * 0.001)
\*                                    + 20 log10(max(f, 1e-6))
MorePlots_fspl_db(distance_m, freq_mhz) ==
    EmpiricalConstDb
        + (IF distance_m <= 0 THEN -120000 ELSE Db20Log10(distance_m)) - 60000
        + (IF freq_mhz <= 0 THEN -120000 ELSE Db20Log10(freq_mhz))

RxPowerAliases ==
    <<"rx_power_dbm", "rsrp_dbm", "received_power_dbm", "currentSignalStrength",
      "rx_power", "RSRP">>

MissingRxPowerError == "Could not find a received power column (e.g., rx_power_dbm / RSRP)."

\* raises ValueError (ok = FALSE) when no alias matches
\* a normaliser that fills a missing received power with NaN
ensure_rx_power_dbmDefault(t) ==
    LET power_col == pick_col(t.columns, RxPowerAliases)
    IN  IF power_col = None THEN [ok |-> TRUE, value |-> [i \in DOMAIN t.rows |-> NaN]]
        ELSE [ok |-> TRUE, value |-> ColumnOf(t, power_col)]

ensure_rx_power_dbm(t) ==
    LET power_col == pick_col(t.columns, RxPowerAliases)
    IN  IF power_col = None THEN [ok |-> FALSE, error |-> MissingRxPowerError]
        ELSE [ok |-> TRUE, value |-> ColumnOf(t, power_col)]

ensure_model_label(t) ==
    LET mcol == pick_col(t.columns, <<"model", "propagation_model", "modelName">>)
    IN  IF mcol = None THEN [i \in DOMAIN t.rows |-> "(model?)"]
        ELSE ColumnOf(t, mcol)

\* v.strip().lower() on the strings of the model
StripLower(v) ==
    CASE v = "True"  -> "true"
      [] v = "False" -> "false"
      [] v = " ON "  -> "on"
      [] v = "Off"   -> "off"
      [] OTHER -> v

\* norm(v) of ensure_building_flag
norm(v) ==
    IF v.type = "str"
    THEN LET vlow == StripLower(v.val)
         IN  IF vlow \in {"1", "true", "on", "yes"} THEN "ON"
             ELSE IF vlow \in {"0", "false", "off", "no"} THEN "OFF"
             ELSE v.val
    ELSE IF v.type = "bool" THEN (IF v.val THEN "ON" ELSE "OFF")
    ELSE IF v.val # 0 THEN "ON" ELSE "OFF"

ensure_building_flag(t) ==
    LET bcol == pick_col(t.columns, <<"buildings_on", "buildings", "buildingsEnabled", "bld_on">>)
    IN  IF bcol = None THEN [i \in DOMAIN t.rows |-> "unknown"]
        ELSE [i \in DOMAIN t.rows |-> norm(t.rows[i][bcol])]

\* the transmit power looked up before the path-loss column
ensure_path_lossEirpFirst(t, rx_power_dbm) ==
    LET pl_col   == pick_col(t.columns, <<"path_loss_db", "pathloss_db">>)
        eirp_col == pick_col(t.columns,
                        <<"tx_eirp_dbm", "eirp_dbm", "tx_power_dbm", "transmitterPower">>)
    IN  IF eirp_col # None
        THEN [i \in DOMAIN t.rows |-> FSub(t.rows[i][eirp_col], rx_power_dbm[i])]
        ELSE IF pl_col # None THEN ColumnOf(t, pl_col)
        ELSE [i \in DOMAIN t.rows |-> NaN]

ensure_path_loss(t, rx_power_dbm) ==
    LET pl_col   == pick_col(t.columns, <<"path_loss_db", "pathloss_db">>)
        eirp_col == pick_col(t.columns,
                        <<"tx_eirp_dbm", "eirp_dbm", "tx_power_dbm", "transmitterPower">>)
    IN  IF pl_col # None THEN ColumnOf(t, pl_col)
        ELSE IF eirp_col # None
        THEN [i \in DOMAIN t.rows |-> FSub(t.rows[i][eirp_col], rx_power_dbm[i])]
        ELSE [i \in DOMAIN t.rows |-> NaN]

ReadError == "pd.read_csv failed"

\* path.name: the stem with its suffix
NameOf(file) == <<file.stem, ".csv">>

\* load_and_normalize(path): ok = FALSE stands for the exception that leaves it
load_and_normalize(file) ==
    LET t           == file.table
        rx_xyz_cols == <<pick_col(t.columns, <<"rx_x", "rx_world_x", "rxX">>),
                         pick_col(t.columns, <<"rx_y", "rx_world_y", "rxY">>),
                         pick_col(t.columns, <<"rx_z", "rx_world_z", "rxZ">>)>>
        tx_xyz_cols == <<pick_col(t.columns, <<"tx_x", "tx_world_x", "txX">>),
                         pick_col(t.columns, <<"tx_y", "tx_world_y", "txY">>),
                         pick_col(t.columns, <<"tx_z", "tx_world_z", "txZ">>)>>
        freq_mhz    == ensure_frequency_mhz(t)
        rx_power    == ensure_rx_power_dbm(t)
        distance_m  == ensure_distance(t, rx_xyz_cols, tx_xyz_cols)
        model       == ensure_model_label(t)
        buildings   == ensure_building_flag(t)
        raw_pl      == ensure_path_loss(t, rx_power.value)
        fspl        == [i \in DOMAIN t.rows |-> fspl_db_empirical(distance_m[i], freq_mhz[i])]
        path_loss   == [i \in DOMAIN t.rows |-> IF IsNaN(raw_pl[i]) THEN fspl[i] ELSE raw_pl[i]]
        rx_idx      == pick_col(t.columns,
                           <<"rx_anchor_idx", "rx_index", "receiver_index", "rx_id">>)
    IN  IF ~t.readable THEN [ok |-> FALSE, error |-> ReadError, frame |-> <<>>]
        ELSE IF ~rx_power.ok THEN [ok |-> FALSE, error |-> rx_power.error, frame |-> <<>>]
        ELSE [ok    |-> TRUE,
              error |-> "",
              frame |-> [i \in DOMAIN t.rows |->
                  [file                |-> NameOf(file),
                   model               |-> model[i],
                   buildings           |-> buildings[i],
                   frequency_mhz       |-> freq_mhz[i],
                   distance_m          |-> distance_m[i],
                   rx_power_dbm        |-> rx_power.value[i],
                   path_loss_db        |-> path_loss[i],
                   fspl_db             |-> fspl[i],
                   excess_path_loss_db |-> FSub(path_loss[i], fspl[i]),
                   rx_index            |-> IF rx_idx = None THEN i - 1
                                          ELSE t.rows[i][rx_idx]]]]

---------------------------------------------------------------------------
(* ResultsAnalyzer.py: summaries and main *)

\* groupby(["model","buildings"]) yields its groups in sorted key order
LabelOrder == <<"(model?)", "FreeSpace", "Hata", "LogD">>

BuildingOrder == <<"OFF", "ON", "unknown">>

coverage_percentStrict(series_dbm, thr_dbm) ==
    IF series_dbm = <<>> THEN NaN
    ELSE (Len(SelectSeq(series_dbm, LAMBDA p : ~IsNaN(p) /\ p > thr_dbm)) * 100000)
            \div Len(series_dbm)

coverage_percent(series_dbm, thr_dbm) ==
    IF series_dbm = <<>> THEN NaN
    ELSE (Len(SelectSeq(series_dbm, LAMBDA p : ~IsNaN(p) /\ p >= thr_dbm)) * 100000)
            \div Len(series_dbm)

\* np.nanstd: population standard deviation of the values present
NanStd(xs) ==
    LET valid == DropNaN(xs)
        mean  == PandasMean(xs)
    IN  IF valid = <<>> THEN NaN
        ELSE FSqrt(SumSeq([i \in DOMAIN valid |-> FSquare(valid[i] - mean)]) \div Len(valid))

SummaryRow(model, bld, g) ==
    [model         |-> model,
     buildings     |-> bld,
     n_samples     |-> Len(g),
     mean_rsrp_dbm |-> PandasMean(Column(g, "rx_power_dbm")),
     mean_epl_db   |-> PandasMean(Column(g, "excess_path_loss_db")),
     std_epl_db    |-> NanStd(Column(g, "excess_path_loss_db")),
     coverage      |-> [t \in DOMAIN THRESHOLDS |->
                           coverage_percent(Column(g, "rx_power_dbm"), THRESHOLDS[t])]]

RECURSIVE SummaryLoop(_, _)
SummaryLoop(df, keys) ==
    IF keys = <<>> THEN <<>>
    ELSE LET k == Head(keys)
             g == SelectSeq(df, LAMBDA r : r.model = k[1] /\ r.buildings = k[2])
         IN  (IF g = <<>> THEN <<>> ELSE <<SummaryRow(k[1], k[2], g)>>)
                 \o SummaryLoop(df, Tail(keys))

GroupKeys ==
    [k \in 1 .. Len(LabelOrder) * Len(BuildingOrder) |->
        <<LabelOrder[((k - 1) \div Len(BuildingOrder)) + 1],
          BuildingOrder[((k - 1) % Len(BuildingOrder)) + 1]>>]

summarize_run(df) == SummaryLoop(df, GroupKeys)

\* writing a file replaces what an earlier write left at the same path
Write(outs, path, content) ==
    [q \in DOMAIN outs \cup {path} |-> IF q = path THEN content ELSE outs[q]]

\* the per-run plots and summary CSV, lines 294-311
WriteRunOutputs(outs, stem, df) ==
    LET o1 == Write(outs, <<"power_distance__", stem>>, df)
        o2 == Write(o1, <<"epl_box__", stem>>, df)
        o3 == Write(o2, <<"coverage__", stem>>, df)
    IN  Write(o3, <<"summary__", stem>>, summarize_run(df))

RECURSIVE Concat(_)
Concat(frames) == IF frames = <<>> THEN <<>> ELSE Head(frames) \o Concat(Tail(frames))

\* the combined plots and summary, lines 316-322
WriteCombinedOutputs(outs, frames) ==
    IF Len(frames) >= 2
    THEN LET big == Concat(frames)
             o1  == Write(outs, <<"combined_power_distance", "">>, big)
             o2  == Write(o1, <<"combined_epl_box", "">>, big)
             o3  == Write(o2, <<"combined_coverage", "">>, big)
         IN  Write(o3, <<"summary__", "combined">>, summarize_run(big))
    ELSE outs

\* a loop that stops at the first file that fails
AfterFailureBreak(i, n) == n + 1

\* "except Exception ... continue": the loop goes on with the next file
AfterFailure(i, n) == i + 1

Failure(file, error) == [file |-> NameOf(file), error |-> error]

ResultsAnalyzerStart ==
    /\ script = "ResultsAnalyzer"
    /\ pc = "glob"
    /\ IF files = <<>>
       THEN /\ reported' = Append(reported, [file |-> "", error |-> "No CSVs found"])
            /\ exit' = "status 0"
            /\ pc' = "done"
            /\ idx' = idx
       ELSE /\ pc' = "loop"
            /\ idx' = 1
            /\ UNCHANGED <<reported, exit>>
    /\ UNCHANGED <<metricVars, scenarioVars, files, outputs, all_norm, script>>

ResultsAnalyzerFile ==
    /\ script = "ResultsAnalyzer"
    /\ pc = "loop"
    /\ idx <= Len(files)
    /\ LET csv == files[idx]
           df  == load_and_normalize(csv)
       IN  IF ~df.ok
           THEN /\ reported' = Append(reported, Failure(csv, df.error))
                /\ idx' = AfterFailure(idx, Len(files))
                /\ UNCHANGED <<all_norm, outputs>>
           ELSE /\ all_norm' = Append(all_norm, df.frame)
                /\ outputs' = WriteRunOutputs(outputs, csv.stem, df.frame)
                /\ idx' = idx + 1
                /\ UNCHANGED reported
    /\ UNCHANGED <<metricVars, scenarioVars, pc, files, exit, script>>

ResultsAnalyzerFinish ==
    /\ script = "ResultsAnalyzer"
    /\ pc = "loop"
    /\ idx > Len(files)
    /\ outputs' = WriteCombinedOutputs(outputs, all_norm)
    /\ exit' = "status 0"
    /\ pc' = "done"
    /\ UNCHANGED <<metricVars, scenarioVars, files, idx, all_norm, reported, script>>

---------------------------------------------------------------------------
(* MorePlots.py: process_csv and main *)

HasCol(t, name) == \E i \in DOMAIN t.columns : t.columns[i] = name

\* the test "rsrp_dbm" in df.columns or "rx_signal_strength_dbm" in df.columns
HasRsrpSource(t) == HasCol(t, "rsrp_dbm") \/ HasCol(t, "rx_signal_strength_dbm")

\* _ensure_rsrp_dbm leaves the frame with an rsrp_dbm column
RsrpResolved(t) ==
    \/ HasRsrpSource(t)
    \/ (HasCol(t, "pl_db") /\ HasCol(t, "tx_power_dbm"))

\* _scenario_name_from: the single value of the scenario column, else the stem
scenario_name_from(file) ==
    LET t    == file.table
        vals == IF HasCol(t, "scenario")
                THEN {t.rows[i].scenario : i \in DOMAIN t.rows} ELSE {}
    IN  IF Cardinality(vals) = 1 THEN CHOOSE v \in vals : TRUE ELSE file.stem

BuildingValues(t) == {t.rows[i].buildings_on : i \in DOMAIN t.rows}

\* the pivot columns that rename({0: "OFF", 1: "ON"}) turns into OFF and ON
IsOff(v) == (v.type = "int" /\ v.val = 0) \/ (v.type = "bool" /\ ~v.val)

IsOn(v) == (v.type = "int" /\ v.val = 1) \/ (v.type = "bool" /\ v.val)

\* outcome of each of the seven steps and the files an OK step writes
StepOutcomes(t) ==
    << [step   |-> "corner_nlos",
        status |-> IF HasCol(t, "distance_m") /\ HasRsrpSource(t) THEN "OK" ELSE "SKIP",
        writes |-> <<"corner_nlos.png">>],
       [step   |-> "canyon_reflection",
        status |-> IF HasCol(t, "buildings_on") /\ HasCol(t, "distance_m")
                   THEN (IF RsrpResolved(t)
                            /\ \A v \in BuildingValues(t) : v.type # "str"
                         THEN "OK" ELSE "WARN")
                   ELSE "SKIP",
        writes |-> <<"canyon_reflection.png">>],
       [step   |-> "material_sweep",
        status |-> IF HasCol(t, "material") /\ HasRsrpSource(t) THEN "OK" ELSE "SKIP",
        writes |-> <<"material_sweep.png">>],
       [step   |-> "frequency_compare",
        status |-> IF HasCol(t, "frequency_mhz") /\ HasCol(t, "distance_m")
                   THEN (IF RsrpResolved(t) THEN "OK" ELSE "WARN")
                   ELSE "SKIP",
        writes |-> <<"frequency_compare.png", "frequency_coverage_table.csv">>],
       [step   |-> "sinr_throughput",
        status |-> IF HasRsrpSource(t) THEN "OK" ELSE "SKIP",
        writes |-> <<"throughput_hist.png", "sinr_throughput.csv">>],
       [step   |-> "model_ablation",
        status |-> IF HasCol(t, "model") /\ HasRsrpSource(t) /\ HasCol(t, "distance_m")
                   THEN "OK" ELSE "SKIP",
        writes |-> <<"model_ablation_rmse.csv">>],
       [step   |-> "buildings_delta",
        status |-> IF HasCol(t, "buildings_on") /\ HasCol(t, "distance_m") /\ HasRsrpSource(t)
                   THEN (IF /\ \E v \in BuildingValues(t) : IsOff(v)
                            /\ \E v \in BuildingValues(t) : IsOn(v)
                            /\ \A v \in BuildingValues(t) : v.type # "str"
                         THEN "OK" ELSE "WARN")
                   ELSE "SKIP",
        writes |-> <<"buildings_delta_by_distance.png">>] >>

RECURSIVE WriteAll(_, _, _, _)
WriteAll(outs, dir, names, content) ==
    IF names = <<>> THEN outs
    ELSE WriteAll(Write(outs, <<dir, Head(names)>>, content), dir, Tail(names), content)

RECURSIVE WriteSteps(_, _, _, _)
WriteSteps(outs, dir, steps, content) ==
    IF steps = <<>> THEN outs
    ELSE WriteSteps(IF Head(steps).status = "OK"
                    THEN WriteAll(outs, dir, Head(steps).writes, content) ELSE outs,
                    dir, Tail(steps), content)

\* process_csv(csv_path, out_root): ok = FALSE stands for the exception of
\* load_runs_csv; every later step catches its own
process_csv(file, outs) ==
    IF ~file.table.readable THEN [ok |-> FALSE, error |-> ReadError, outputs |-> outs]
    ELSE [ok      |-> TRUE,
          error   |-> "",
          outputs |-> WriteSteps(outs, scenario_name_from(file),
                                 StepOutcomes(file.table), file.table.rows)]

MorePlotsStart ==
    /\ script = "MorePlots"
    /\ pc = "glob"
    /\ IF files = <<>>
       THEN /\ reported' = Append(reported, [file |-> "", error |-> "No CSV files found"])
            /\ exit' = "status 2"
            /\ pc' = "done"
            /\ idx' = idx
       ELSE /\ pc' = "loop"
            /\ idx' = 1
            /\ UNCHANGED <<reported, exit>>
    /\ UNCHANGED <<metricVars, scenarioVars, files, outputs, all_norm, script>>

MorePlotsFile ==
    /\ script = "MorePlots"
    /\ pc = "loop"
    /\ idx <= Len(files)
    /\ LET f == files[idx]
           r == process_csv(f, outputs)
       IN  IF ~r.ok
           THEN /\ reported' = Append(reported, Failure(f, r.error))
                /\ idx' = AfterFailure(idx, Len(files))
                /\ UNCHANGED outputs
           ELSE /\ outputs' = r.outputs
                /\ idx' = idx + 1
                /\ UNCHANGED reported
    /\ UNCHANGED <<metricVars, scenarioVars, pc, files, all_norm, exit, script>>

MorePlotsFinish ==
    /\ script = "MorePlots"
    /\ pc = "loop"
    /\ idx > Len(files)
    /\ exit' = "status 0"
    /\ pc' = "done"
    /\ UNCHANGED <<metricVars, scenarioVars, files, idx, outputs, all_norm, reported, script>>

---------------------------------------------------------------------------
(* Plot.py and Plot2.py: load_csv, prepare_all, main *)

PlotColumns ==
    <<"scenario", "propagation_model", "distance_m", "tx_frequency_mhz",
      "tx_power_dbm", "rx_signal_strength_dbm", "buildings_on">>

\* str(v).lower() of a buildings cell
StrLower(v) ==
    IF v.type = "bool" THEN (IF v.val THEN "true" ELSE "false")
    ELSE IF v.type = "int" THEN (IF v.val = 1 THEN "1" ELSE IF v.val = 0 THEN "0" ELSE "int")
    ELSE IF v.type = "float"
    THEN (IF IsNaN(v.val) THEN "nan"
          ELSE IF v.val = 1000 THEN "1.0" ELSE IF v.val = 0 THEN "0.0" ELSE "float")
    ELSE CASE v.val = "True"  -> "true"
           [] v.val = "False" -> "false"
           [] v.val = " ON "  -> " on "
           [] v.val = "Off"   -> "off"
           [] OTHER -> v.val

\* the lambda mapped over buildings_on by load_csv of Plot.py and Plot2.py
load_csv_buildings(v) ==
    IF StrLower(v) \in {"true", "1", "on", "yes"} THEN "ON" ELSE "OFF"

\* load_csv: df[col] raises KeyError for the first column that is missing
load_csv(file) ==
    LET t       == file.table
        missing == SelectSeq(PlotColumns, LAMBDA c : ~HasCol(t, c))
    IN  IF ~t.readable THEN [ok |-> FALSE, error |-> ReadError, frame |-> <<>>]
        ELSE IF missing # <<>> THEN [ok |-> FALSE, error |-> Head(missing), frame |-> <<>>]
        ELSE [ok    |-> TRUE,
              error |-> "",
              frame |-> [i \in DOMAIN t.rows |->
                  [scenario  |-> t.rows[i].scenario,
                   model     |-> t.rows[i].propagation_model,
                   dist_m    |-> t.rows[i].distance_m,
                   freq_mhz  |-> t.rows[i].tx_frequency_mhz,
                   tx_p_dbm  |-> t.rows[i].tx_power_dbm,
                   rsrp_dbm  |-> t.rows[i].rx_signal_strength_dbm,
                   buildings |-> load_csv_buildings(t.rows[i].buildings_on)]]]

\* the characters of the model's scenario names are all alphanumeric, which
\* the replacement of plot_overlays leaves alone
SafeName(scenario) == scenario

\* plot_overlays: one figure (pdf and png) per (scenario, rounded frequency)
\* group that has at least min_points rows after the buildings filter
plot_overlays(df, buildings_filter, fspl_ref, min_points) ==
    LET kept   == IF buildings_filter \in {"ON", "OFF"}
                  THEN SelectSeq(df, LAMBDA r : r.buildings = buildings_filter) ELSE df
        group(k) == SelectSeq(kept, LAMBDA r : r.scenario = k[1] /\ r.freq_mhz = k[2])
        keys   == {k \in {<<kept[i].scenario, kept[i].freq_mhz>> : i \in DOMAIN kept} :
                      Len(group(k)) >= min_points}
        paths  == {<<ext, SafeName(k[1]), k[2]>> : ext \in {"overlay.pdf", "overlay.png"},
                                                   k \in keys}
    IN  [q \in paths |->
            [rows |-> group(CHOOSE k \in keys : SafeName(k[1]) = q[2] /\ k[2] = q[3]),
             fspl |-> fspl_ref]]

PlotStart ==
    /\ script = "Plot"
    /\ pc = "glob"
    /\ pc' = "loop"
    /\ idx' = 1
    /\ UNCHANGED <<metricVars, scenarioVars, files, outputs, all_norm, reported, exit, script>>

\* prepare_all, the loop body: frames.append(load_csv(p)) inside try
PlotFile ==
    /\ script = "Plot"
    /\ pc = "loop"
    /\ idx <= Len(files)
    /\ LET f == files[idx]
           r == load_csv(f)
       IN  IF ~r.ok
           THEN /\ reported' = Append(reported, Failure(f, r.error))
                /\ idx' = AfterFailure(idx, Len(files))
                /\ UNCHANGED all_norm
           ELSE /\ all_norm' = Append(all_norm, r.frame)
                /\ idx' = idx + 1
                /\ UNCHANGED reported
    /\ UNCHANGED <<metricVars, scenarioVars, pc, files, outputs, exit, script>>

\* prepare_all after the loop, then main's call of plot_overlays
PlotFinish ==
    /\ script = "Plot"
    /\ pc = "loop"
    /\ idx > Len(files)
    /\ IF all_norm = <<>>
       THEN /\ exit' = "status 1"
            /\ UNCHANGED outputs
       ELSE /\ exit' = "status 0"
            /\ \E buildings_filter \in {"ON", "OFF", "BOTH"}, fspl_ref \in BOOLEAN,
                  min_points \in {1, 3} :
                  outputs' = plot_overlays(Concat(all_norm), buildings_filter,
                                           fspl_ref, min_points)
    /\ pc' = "done"
    /\ UNCHANGED <<metricVars, scenarioVars, files, idx, all_norm, reported, script>>

---------------------------------------------------------------------------
(* The batch scripts as a state machine: the input files are listed in     *)
(* sorted order, then one script's main runs over them.                    *)

Scripts == {"ResultsAnalyzer", "MorePlots", "Plot"}

StemName(i) ==
    CASE i = 1 -> "run1" [] i = 2 -> "run2" [] i = 3 -> "run3"
      [] i = 4 -> "run4" [] i = 5 -> "run5"

LastOrd == IF files = <<>> THEN 0 ELSE files[Len(files)].ord

InitBatch ==
    /\ pc = "glob"
    /\ script \in Scripts
    /\ files = <<>>
    /\ idx = 0
    /\ outputs = <<>>
    /\ all_norm = <<>>
    /\ reported = <<>>
    /\ exit = "running"
    /\ data = <<>> /\ result = <<>> /\ warnings = <<>>
    /\ folders = <<>> /\ summary_rows = <<>> /\ printed = <<>>

\* sorted(DATA_DIR.glob("*.csv")): the next file in name order
ListFile ==
    /\ pc = "glob"
    /\ \E i \in (LastOrd + 1) .. MaxFiles, t \in Tables :
          files' = Append(files, [stem |-> StemName(i), ord |-> i, table |-> t])
    /\ UNCHANGED <<metricVars, scenarioVars, pc, idx, outputs, all_norm, reported, exit, script>>

NextBatch ==
    \/ ListFile
    \/ ResultsAnalyzerStart
    \/ ResultsAnalyzerFile
    \/ ResultsAnalyzerFinish
    \/ MorePlotsStart
    \/ MorePlotsFile
    \/ MorePlotsFinish
    \/ PlotStart
    \/ PlotFile
    \/ PlotFinish

SpecBatch == InitBatch /\ [][NextBatch]_vars

\* exports that carry a scenario column: RsrpExport (scenario S2), a run of
\* scenario S1 with the model and buildings setting of RsrpExport, and one
\* export that holds the rows of two scenarios
ScenarioTables ==
    LET cols == <<"scenario", "model", "buildings_on", "frequency_mhz",
                  "distance_m", "rsrp_dbm", "tx_power_dbm">>
        row(s, m, b, d, rx) ==
            [scenario |-> s, model |-> m, buildings_on |-> IntCell(b),
             frequency_mhz |-> 700, distance_m |-> d, rsrp_dbm |-> rx,
             tx_power_dbm |-> 30000]
    IN  {RsrpExport,
         [readable |-> TRUE, columns |-> cols,
          rows |-> << row("S1", "LogD", 1, 10, -20000) >>],
         [readable |-> TRUE, columns |-> cols,
          rows |-> << row("S1", "FreeSpace", 0, 10, -20000),
                      row("S2", "FreeSpace", 0, 20, -25000) >>]}

\* ResultsAnalyzer.main over exports that carry a scenario column
InitAggregate == InitBatch /\ script = "ResultsAnalyzer"

ListScenarioFile ==
    /\ pc = "glob"
    /\ \E i \in (LastOrd + 1) .. MaxFiles, t \in ScenarioTables :
          files' = Append(files, [stem |-> StemName(i), ord |-> i, table |-> t])
    /\ UNCHANGED <<metricVars, scenarioVars, pc, idx, outputs, all_norm, reported, exit,
                   script>>

NextAggregate ==
    \/ ListScenarioFile
    \/ ResultsAnalyzerStart
    \/ ResultsAnalyzerFile
    \/ ResultsAnalyzerFinish

SpecAggregate == InitAggregate /\ [][NextAggregate]_vars

---------------------------------------------------------------------------
(* Plot_Lte_5g.py and S2_plot_and_metrics.py: the loop over SCENARIOS *)

MaxScenarioRows == 2

ScenarioScripts == {"Plot_Lte_5g", "S2_plot_and_metrics"}

\* the SCENARIOS list of the running script; S2_plot_and_metrics has no
\* NLOS reference
SCENARIOS ==
    << [id |-> "LTE",
        technology |-> "LTE", freq_mhz |-> 700,
        los_max_distance |-> 100, ref_los |-> "FreeSpace", ref_nlos |-> "LogD"],
       [id |-> IF script = "Plot_Lte_5g" THEN "5G Sub-6 GHz" ELSE "5GSub6",
        technology |-> "FiveGSub6", freq_mhz |-> 3500,
        los_max_distance |-> 100, ref_los |-> "FreeSpace", ref_nlos |-> "LogD"] >>

PLOT_MODEL_ORDER == <<"FreeSpace", "LogD", "LogDShadow", "Hata", "COST231", "RayTracing">>

\* str.strip() on the text fields of the export
Strip(text) ==
    CASE text = "RayTracing " -> "RayTracing"
      [] text = " LTE"        -> "LTE"
      [] OTHER -> text

ExportRow(model, distance, technology, freq_mhz, rx) ==
    [PropagationModel |-> model, Distance |-> distance, Technology |-> technology,
     TxFrequency |-> freq_mhz, TxPower |-> 30000, RxSignalStrength |-> rx]

\* rows an export in the folder of scenario k can hold: around the corner
\* at 100 m, with received powers near free space, one row of another
\* technology, and one row whose Distance cell is empty (NaN after
\* pd.read_csv and pd.to_numeric(errors="coerce"))
ScenarioRows(k) ==
    LET lte  == k = 1
        tech == IF lte THEN "LTE" ELSE "FiveGSub6"
        f    == IF lte THEN 700 ELSE 3500
        near == IF lte THEN -33000 ELSE -47000
        far  == IF lte THEN -43000 ELSE -57000
    IN  { ExportRow("FreeSpace", 50, tech, f, near),
          ExportRow("RayTracing", 50, tech, f, near - 3000),
          ExportRow("LogD", 150, tech, f, far - 2000),
          ExportRow("RayTracing ", 150, tech, f, far - 5000),
          ExportRow("RayTracing", NaN, tech, f, far),
          ExportRow("FreeSpace", 50, IF lte THEN "FiveGSub6" ELSE " LTE",
                    IF lte THEN 3500 ELSE 700, near) }

NoCsv == [has_csv |-> FALSE, rows |-> <<>>]

\* what glob finds in the folder of scenario k: nothing, or exports with up
\* to MaxScenarioRows rows in all
FolderContents(k) ==
    {NoCsv} \cup
    { [has_csv |-> TRUE, rows |-> rows] :
        rows \in UNION { [1 .. n -> ScenarioRows(k)] : n \in 0 .. MaxScenarioRows } }

NoCsvError == "No CSV files found"

\* load_scenario: FileNotFoundError when glob finds nothing, else the
\* concatenated exports with the text fields stripped
load_scenario(folder) ==
    IF ~folder.has_csv THEN [ok |-> FALSE, error |-> NoCsvError, data |-> <<>>]
    ELSE [ok    |-> TRUE,
          error |-> "",
          data  |-> [i \in DOMAIN folder.rows |->
                        [folder.rows[i] EXCEPT
                            !.PropagationModel = Strip(@), !.Technology = Strip(@)]]]

ModelsPresent(df) == {df[i].PropagationModel : i \in DOMAIN df}

\* plot_combined_los_nlos draws only if a known model besides FreeSpace is present
models_to_plot(df) ==
    SelectSeq(PLOT_MODEL_ORDER, LAMBDA m : m \in ModelsPresent(df) /\ m # "FreeSpace")

RECURSIVE MetricsGet(_, _)
\* los_metrics.get("RayTracing", (None, None))
MetricsGet(metrics, model) ==
    IF metrics = <<>> THEN [rmse |-> None, bias |-> None]
    ELSE IF Head(metrics).model = model
         THEN [rmse |-> Head(metrics).rmse, bias |-> Head(metrics).bias]
         ELSE MetricsGet(Tail(metrics), model)

RegionMetrics(region, reference_model) ==
    IF region # <<>>
    THEN MetricsGet(compute_metrics_vs_reference(region, reference_model).metrics,
                    "RayTracing")
    ELSE [rmse |-> None, bias |-> None]

\* df[df["Distance"] <= d_split]: a comparison with NaN is False
los_data(cfg, df) ==
    SelectSeq(df, LAMBDA r : ~IsNaN(r.Distance) /\ r.Distance <= cfg.los_max_distance)

\* df[df["Distance"] > d_split]
nlos_data(cfg, df) ==
    SelectSeq(df, LAMBDA r : ~IsNaN(r.Distance) /\ r.Distance > cfg.los_max_distance)

\* the two "[INFO] ... rows" lines: Plot_Lte_5g prints len(nlos_data),
\* S2_plot_and_metrics prints len(df) - len(los_data)
RowCounts(cfg, df) ==
    [scenario  |-> cfg.id,
     los_rows  |-> Len(los_data(cfg, df)),
     nlos_rows |-> IF script = "Plot_Lte_5g" THEN Len(nlos_data(cfg, df))
                   ELSE Len(df) - Len(los_data(cfg, df))]

\* the summary row of one scenario; only Plot_Lte_5g has the NLOS columns
SummaryOf(cfg, df) ==
    LET los  == los_data(cfg, df)
        nlos == nlos_data(cfg, df)
    IN  [Scenario |-> cfg.id,
         FreqMHz  |-> cfg.freq_mhz,
         LOS      |-> RegionMetrics(los, cfg.ref_los),
         NLOS     |-> IF script = "Plot_Lte_5g" THEN RegionMetrics(nlos, cfg.ref_nlos)
                      ELSE [rmse |-> None, bias |-> None]]

\* df after the technology and frequency filters of main
Filtered(cfg, data_) ==
    SelectSeq(data_, LAMBDA r : r.Technology = cfg.technology
                                /\ r.TxFrequency = cfg.freq_mhz)

\* the files one scenario's iteration writes into its folder
ScenarioOutputs(outs, cfg, df) ==
    LET o1 == IF models_to_plot(df) # <<>>
              THEN Write(outs, <<cfg.id, "LOS_NLOS_Pr_vs_d.png">>, df) ELSE outs
    IN  IF script = "S2_plot_and_metrics"
        THEN Write(o1, <<cfg.id, "metrics_output.csv">>,
                   compute_metrics_s2plot(df, cfg.ref_los).rows)
        ELSE o1

InitScenarios ==
    /\ pc = "scenarios"
    /\ script \in ScenarioScripts
    /\ folders \in {<<a, b>> : a \in FolderContents(1), b \in FolderContents(2)}
    /\ idx = 1
    /\ summary_rows = <<>>
    /\ printed = <<>>
    /\ outputs = <<>>
    /\ exit = "running"
    /\ files = <<>> /\ all_norm = <<>> /\ reported = <<>>
    /\ data = <<>> /\ result = <<>> /\ warnings = <<>>

\* one iteration of "for cfg in SCENARIOS"
ScenarioStep ==
    /\ pc = "scenarios"
    /\ idx <= Len(SCENARIOS)
    /\ LET cfg    == SCENARIOS[idx]
           loaded == load_scenario(folders[idx])
           df     == Filtered(cfg, loaded.data)
       IN  IF ~loaded.ok
           THEN \* load_scenario is called outside any try: the
                \* FileNotFoundError leaves the loop and main
                /\ pc' = "done"
                /\ exit' = "exception"
                /\ reported' = Append(reported, [file |-> cfg.id, error |-> loaded.error])
                /\ UNCHANGED <<idx, summary_rows, outputs, warnings>>
           ELSE IF df = <<>>
           THEN /\ idx' = idx + 1
                /\ UNCHANGED <<pc, exit, reported, summary_rows, outputs, warnings>>
           ELSE /\ idx' = idx + 1
                /\ warnings' = Append(warnings, RowCounts(cfg, df))
                /\ summary_rows' = Append(summary_rows, SummaryOf(cfg, df))
                /\ outputs' = ScenarioOutputs(outputs, cfg, df)
                /\ UNCHANGED <<pc, exit, reported>>
    /\ UNCHANGED <<data, result, files, all_norm, script, folders, printed>>

\* after the loop: "if summary_rows:" print the summary table
ScenarioFinish ==
    /\ pc = "scenarios"
    /\ idx > Len(SCENARIOS)
    /\ printed' = summary_rows
    /\ exit' = "status 0"
    /\ pc' = "done"
    /\ UNCHANGED <<metricVars, files, idx, outputs, all_norm, reported, script,
                   folders, summary_rows>>

NextScenarios ==
    \/ ScenarioStep
    \/ ScenarioFinish

SpecScenarios == InitScenarios /\ [][NextScenarios]_vars

---------------------------------------------------------------------------
(* The metrics scripts as a state machine: rows are loaded, then one of    *)
(* the metrics routines runs on the loaded table.                          *)

NoScenarios == folders = <<>> /\ summary_rows = <<>> /\ printed = <<>>

NoBatch ==
    /\ files = <<>> /\ idx = 0 /\ outputs = <<>> /\ all_norm = <<>>
    /\ reported = <<>> /\ exit = "running" /\ script = "metrics"
    /\ NoScenarios

Init ==
    /\ pc = "load"
    /\ data = <<>>
    /\ result = <<>>
    /\ warnings = <<>>
    /\ NoBatch

\* pd.read_csv / pd.concat: one more row of the export
LoadRow ==
    /\ pc = "load"
    /\ Len(data) < MaxRows
    /\ \E r \in Rows : data' = Append(data, r)
    /\ UNCHANGED <<pc, result, warnings, batchVars>>

RunVsReference ==
    /\ pc = "load"
    /\ LET r == compute_metrics_vs_reference(data, REFERENCE_MODEL)
       IN  /\ result' = r.metrics
           /\ warnings' = r.warn
    /\ pc' = "vs_reference"
    /\ UNCHANGED <<data, batchVars>>

RunComputeMetrics ==
    /\ pc = "load"
    /\ LET r == compute_metrics(data, REFERENCE_MODEL)
       IN  /\ result' = r.rows
           /\ warnings' = r.warn
    /\ pc' = "compute_metrics"
    /\ UNCHANGED <<data, batchVars>>

RunComputeMetricsS2Plot ==
    /\ pc = "load"
    /\ LET r == compute_metrics_s2plot(data, REFERENCE_MODEL)
       IN  /\ result' = r.rows
           /\ warnings' = r.warn
    /\ pc' = "compute_metrics_s2plot"
    /\ UNCHANGED <<data, batchVars>>

Next ==
    \/ LoadRow
    \/ RunVsReference
    \/ RunComputeMetrics
    \/ RunComputeMetricsS2Plot

Spec == Init /\ [][Next]_vars

\* the same scripts on exports without missing cells
LoadGridRow ==
    /\ pc = "load"
    /\ Len(data) < MaxGridRows
    /\ \E r \in GridRows : data' = Append(data, r)
    /\ UNCHANGED <<pc, result, warnings, batchVars>>

NextGrid ==
    \/ LoadGridRow
    \/ RunVsReference
    \/ RunComputeMetrics

SpecGrid == Init /\ [][NextGrid]_vars

MaxMixedRows == 2

\* exports whose rows need not share one transmit power or frequency
MixedRows ==
    [PropagationModel : {"FreeSpace", "LogD"},
     Distance         : Distances,
     RxSignalStrength : {-20000, -25000},
     TxFrequency      : {700, 2100},
     TxPower          : {30000, 25000}]

LoadMixedRow ==
    /\ pc = "load"
    /\ Len(data) < MaxMixedRows
    /\ \E r \in MixedRows : data' = Append(data, r)
    /\ UNCHANGED <<pc, result, warnings, batchVars>>

\* pr_dbm of ErrorMetrics.py and of S1_plot_and_metrics.py
pr_dbm(distance_m, frequency_mhz, tx_power_dbm) ==
    tx_power_dbm - fspl_db(distance_m, frequency_mhz)

\* df["PropagationModel"].unique(): the models in order of first appearance
UniqueModels(df) ==
    LET first(m) == CHOOSE i \in DOMAIN df :
                        /\ df[i].PropagationModel = m
                        /\ \A j \in 1..(i - 1) : df[j].PropagationModel # m
        present  == {df[i].PropagationModel : i \in DOMAIN df}
        starts   == {first(m) : m \in present}
        nth[k \in 1..Cardinality(starts)] ==
            CHOOSE i \in starts : Cardinality({j \in starts : j < i}) = k - 1
    IN  [k \in 1..Cardinality(starts) |-> df[nth[k]].PropagationModel]

\* pr_sim - pr_theory of two numpy vectors: elementwise for equal lengths, a
\* vector of length one is broadcast, any other pair of lengths is a ValueError
NumpySub(a, b) ==
    IF Len(a) = Len(b)
    THEN [raised |-> FALSE, value |-> [i \in DOMAIN a |-> FSub(a[i], b[i])]]
    ELSE IF Len(a) = 1
    THEN [raised |-> FALSE, value |-> [i \in DOMAIN b |-> FSub(a[1], b[i])]]
    ELSE IF Len(b) = 1
    THEN [raised |-> FALSE, value |-> [i \in DOMAIN a |-> FSub(a[i], b[1])]]
    ELSE [raised |-> TRUE, value |-> <<>>]

\* (model, rmse, mean_bias) from the simulated and the theoretical vector
ErrorTuple(model, pr_sim, pr_theory) ==
    LET e == NumpySub(pr_sim, pr_theory)
    IN  [raised |-> e.raised,
         row    |-> [model     |-> model,
                     n_theory  |-> Len(pr_theory),
                     n_sim     |-> Len(pr_sim),
                     rmse      |-> FSqrt(NumpyMean([i \in DOMAIN e.value |->
                                                      FSquare(e.value[i])])),
                     mean_bias |-> NumpyMean(e.value)]]

\* the collected tuples, or the exception that ended the loop
RECURSIVE CollectTuples(_)
CollectTuples(ts) ==
    IF ts = <<>> THEN [raised |-> FALSE, rows |-> <<>>]
    ELSE IF Head(ts).raised THEN [raised |-> TRUE, rows |-> <<>>]
    ELSE LET rest == CollectTuples(Tail(ts))
         IN  [raised |-> rest.raised,
              rows   |-> IF rest.raised THEN <<>> ELSE <<Head(ts).row>> \o rest.rows]

\* the module-level loop of ErrorMetrics.py: dist, freq and tx_power are read
\* from df, the simulated vector from sub; an exception ends the script
\* before anything is printed
ErrorMetricsLoop(df) ==
    LET models == UniqueModels(df)
        tuple(model) ==
            LET sub       == GroupOf(df, model)
                freq      == df[1].TxFrequency
                tx_power  == df[1].TxPower
                pr_theory == [i \in DOMAIN df |-> pr_dbm(df[i].Distance, freq, tx_power)]
            IN  ErrorTuple(model, Column(sub, "RxSignalStrength"), pr_theory)
    IN  CollectTuples([k \in DOMAIN models |-> tuple(models[k])])

\* evaluate_vs_fspl of S1_plot_and_metrics.py: everything is read from sub
evaluate_vs_fspl(df) ==
    LET models == SortedModels(df)
        tuple(model) ==
            LET sub       == GroupOf(df, model)
                freq      == sub[1].TxFrequency
                tx_power  == sub[1].TxPower
                pr_theory == [i \in DOMAIN sub |-> pr_dbm(sub[i].Distance, freq, tx_power)]
            IN  ErrorTuple(model, Column(sub, "RxSignalStrength"), pr_theory)
    IN  CollectTuples([k \in DOMAIN models |-> tuple(models[k])])

RunErrorMetrics ==
    /\ pc = "load"
    /\ result' = ErrorMetricsLoop(data)
    /\ pc' = "ErrorMetrics"
    /\ UNCHANGED <<data, warnings, batchVars>>

RunEvaluateVsFspl ==
    /\ pc = "load"
    /\ result' = evaluate_vs_fspl(data)
    /\ pc' = "evaluate_vs_fspl"
    /\ UNCHANGED <<data, warnings, batchVars>>

NextMixed ==
    \/ LoadMixedRow
    \/ RunComputeMetrics
    \/ RunComputeMetricsS2Plot
    \/ RunErrorMetrics
    \/ RunEvaluateVsFspl

SpecMixed == Init /\ [][NextMixed]_vars

\* The free-space path loss functions on one distance and one frequency,
\* zero and negative values included.
InitFspl ==
    /\ pc = "args"
    /\ data \in [distance_m : {-20, -10, 0, 1, 10, 20, 100},
                  frequency_mhz : {-700, 0, 700, 2100}]
    /\ result = <<>>
    /\ warnings = <<>>
    /\ NoBatch

NextFspl ==
    /\ pc = "args"
    /\ UNCHANGED <<data, warnings, batchVars>>
    /\ \/ /\ pc' = "S2_error_metrics.fspl_db"
          /\ result' = IF fspl_db_raises(data.distance_m, data.frequency_mhz)
                        THEN [raised |-> TRUE, value |-> NaN]
                        ELSE [raised |-> FALSE,
                              value  |-> fspl_db(data.distance_m, data.frequency_mhz)]
       \/ /\ pc' = "ResultsAnalyzer.fspl_db"
          /\ result' = [raised |-> FALSE,
                        value  |-> fspl_db_empirical(data.distance_m, data.frequency_mhz)]
       \/ /\ pc' = "MorePlots._fspl_db"
          /\ result' = [raised |-> FALSE,
                        value  |-> MorePlots_fspl_db(data.distance_m, data.frequency_mhz)]

SpecFspl == InitFspl /\ [][NextFspl]_vars

\* Alias resolution over the header of one table.
MaxColumns == 3
MaxCandidates == 2

InitColumns ==
    /\ pc = "header"
    /\ data = [columns |-> <<>>, candidates |-> <<>>]
    /\ result = <<>>
    /\ warnings = <<>>
    /\ NoBatch

\* cols = list(df.columns): pd.read_csv keeps the names of a header distinct
AddColumn ==
    /\ pc = "header"
    /\ Len(data.columns) < MaxColumns
    /\ \E name \in {"RSRP", "rsrp", "freq_hz", "frequency_mhz", "frequency"} :
          /\ \A i \in DOMAIN data.columns : data.columns[i] # name
          /\ data' = [data EXCEPT !.columns = Append(@, name)]
    /\ UNCHANGED <<pc, result, warnings, batchVars>>

\* the candidates a caller lists, in its order of preference
AddCandidate ==
    /\ pc = "header"
    /\ Len(data.candidates) < MaxCandidates
    /\ \E name \in {"rsrp", "RSRP", "freq_hz", "frequency_mhz"} :
          data' = [data EXCEPT !.candidates = Append(@, name)]
    /\ UNCHANGED <<pc, result, warnings, batchVars>>

RunPickCol ==
    /\ pc = "header"
    /\ result' = pick_col(data.columns, data.candidates)
    /\ pc' = "pick_col"
    /\ UNCHANGED <<data, warnings, batchVars>>

\* a table of one row under the header: 700 MHz written in Hz, 2100 in MHz,
\* 3500 in the column without a unit
TableOf(columns) ==
    [readable |-> TRUE,
     columns  |-> columns,
     rows     |-> << [RSRP |-> -20000, rsrp |-> -25000, freq_hz |-> 700000000,
                      frequency_mhz |-> 2100, frequency |-> 3500] >>]

RunEnsureFrequencyMhz ==
    /\ pc = "header"
    /\ result' = ensure_frequency_mhz(TableOf(data.columns))
    /\ pc' = "ensure_frequency_mhz"
    /\ UNCHANGED <<data, warnings, batchVars>>

NextColumns == AddColumn \/ AddCandidate \/ RunPickCol \/ RunEnsureFrequencyMhz

SpecColumns == InitColumns /\ [][NextColumns]_vars

\* Coverage of one sample vector at a pair of thresholds.
MaxSamples == 4

\* received powers of a model group; NaN is a cell pd.to_numeric coerced
SampleValues == {-90000, -98000, -100000, -105000, -120000, NaN}

\* float("-inf") and float("inf"): below and above every sample
NegInf == -(NaN - 1)
PosInf == NaN - 1

CoverageThresholds == {-95000, -100000, -110000, NegInf, PosInf}

InitCoverage ==
    /\ pc = "samples"
    /\ data = <<>>
    /\ result = <<>>
    /\ warnings = <<>>
    /\ NoBatch

\* pr_sim = sub["RxSignalStrength"].values: one more sample of the group
LoadSample ==
    /\ pc = "samples"
    /\ Len(data) < MaxSamples
    /\ \E v \in SampleValues : data' = Append(data, v)
    /\ UNCHANGED <<pc, result, warnings, batchVars>>

\* {... coverage_ratio(pr_sim, th) for th in thresholds} and the
\* coverage_percent(g["rx_power_dbm"], thr) columns, thresholds = (t1, t2);
\* a group is never empty
RunCoverage ==
    /\ pc = "samples"
    /\ data # <<>>
    /\ \E t1, t2 \in CoverageThresholds :
          /\ t1 <= t2
          /\ result' = [i \in 1 .. 2 |->
                          LET th == IF i = 1 THEN t1 ELSE t2
                          IN  [threshold |-> th,
                               ratio     |-> coverage_ratio(data, th),
                               percent   |-> coverage_percent(data, th)]]
    /\ pc' = "coverage"
    /\ UNCHANGED <<data, warnings, batchVars>>

\* int(th): truncation toward zero of a threshold in dBm
IntOf(th) == IF th < 0 THEN -((-th) \div 1000) ELSE th \div 1000

\* a Python dict filled in the order of its items: a later equal key replaces
\* the value of an earlier one
RECURSIVE DictOf(_, _, _)
DictOf(items, i, d) ==
    IF i > Len(items) THEN d
    ELSE DictOf(items, i + 1,
                [k \in (DOMAIN d) \cup {items[i].key} |->
                    IF k = items[i].key THEN items[i].value ELSE d[k]])

\* cov[f"pct_ge_{int(th)}"] = 100.0 * float((dfreq["rsrp_dbm"] >= th).mean())
\* for th in thresholds_dbm, over the samples of one frequency
plot_frequency_compare(rsrp_dbm, thresholds_dbm) ==
    DictOf([i \in DOMAIN thresholds_dbm |->
              [key   |-> <<"pct_ge_", IntOf(thresholds_dbm[i])>>,
               value |-> (Len(SelectSeq(rsrp_dbm,
                              LAMBDA p : ~IsNaN(p) /\ p >= thresholds_dbm[i])) * 100000)
                            \div Len(rsrp_dbm)]],
           1, <<>>)

\* {f"Coverage >= {th} dBm [%]": coverage_ratio(pr_sim, th) for th in thresholds}
CoverageColumns(pr_sim, thresholds) ==
    DictOf([i \in DOMAIN thresholds |->
              [key   |-> <<"Coverage >= ", thresholds[i], " dBm [%]">>,
               value |-> coverage_ratio(pr_sim, thresholds[i])]],
           1, <<>>)

\* lists of two distinct thresholds a caller may pass, whole and fractional
\* dBm values in either order
ThresholdLists ==
    LET values == {-95000, -95500, -100000, -110000}
    IN  {<<a, b>> : a, b \in values} \ {<<a, a>> : a \in values}

\* the coverage outputs of one sample vector for a list of thresholds
RunCoverageTable ==
    /\ pc = "samples"
    /\ data # <<>>
    /\ \E ths \in ThresholdLists :
          result' = [thresholds |-> ths,
                     table      |-> plot_frequency_compare(data, ths),
                     columns    |-> CoverageColumns(data, ths)]
    /\ pc' = "coverage_table"
    /\ UNCHANGED <<data, warnings, batchVars>>

NextCoverage == LoadSample \/ RunCoverage \/ RunCoverageTable

SpecCoverage == InitCoverage /\ [][NextCoverage]_vars

\* SINR and throughput of MorePlots.py. Linear powers are integers in units
\* of 1e-13 mW; spectral efficiency is in milli-bit/s/Hz, throughput in
\* kbit/s.
MaxSinrRows == 2

\* _thermal_noise_dbm(20e6, 5.0) = -95.99 dBm, in units of 1e-13 mW
NoiseLinear == 2518

\* _to_linear_dbm: np.power(10.0, dbm / 10.0)
to_linear_dbm(dbm) ==
    CASE IsNaN(dbm)    -> NaN
      [] dbm = NegInf  -> 0
      [] dbm = PosInf  -> PosInf
      [] dbm = -120000 -> 10
      [] dbm = -100000 -> 1000
      [] dbm = -90000  -> 10000
      [] dbm = -70000  -> 1000000

\* the whole bits of log2(num / den), num >= den > 0, and den scaled by them
RECURSIVE IntLog2(_, _, _)
IntLog2(num, den, k) ==
    IF num >= 2 * den THEN IntLog2(num, 2 * den, k + 1) ELSE [k |-> k, den |-> den]

\* ten fractional bits of log2(x / 1024), 1024 <= x < 2048, by squaring
RECURSIVE FracLog2(_, _, _)
FracLog2(x, j, acc) ==
    IF j > 10 THEN acc
    ELSE LET y == (x * x) \div 1024
         IN  IF y >= 2048 THEN FracLog2(y \div 2, j + 1, acc + 2 ^ (10 - j))
             ELSE FracLog2(y, j + 1, acc)

\* np.log2(num / den) in thousandths, num >= den > 0
Log2Milli(num, den) ==
    LET ip == IntLog2(num, den, 0)
        x  == (num * 1024) \div ip.den
    IN  ((ip.k * 1024 + FracLog2(x, 1, 0)) * 1000) \div 1024

se_capNone(se) == se

\* np.minimum(se, 7.6): a NaN stays a NaN
se_cap(se) == IF IsNaN(se) THEN NaN ELSE IF se < 7600 THEN se ELSE 7600

\* one row of compute_sinr_and_throughput at bandwidth_hz = 20e6
SinrRow(rsrp_dbm, interference_dbm) ==
    LET s == to_linear_dbm(rsrp_dbm)
        i == to_linear_dbm(interference_dbm)
        n == NoiseLinear
        undefined == IsNaN(s) \/ IsNaN(i)
        zero      == ~undefined /\ i = PosInf      \* s / inf
        \* _to_dbm: 10 log10(max(sinr_linear, 1e-30))
        sinr_db == IF undefined THEN NaN
                   ELSE IF zero \/ s = 0 THEN -300000
                   ELSE IF s >= i + n THEN (Log2Milli(s, i + n) * 30103) \div 10000
                   ELSE -((Log2Milli(i + n, s) * 30103) \div 10000)
        \* np.log2(1.0 + sinr_linear)
        se == IF undefined THEN NaN
              ELSE IF zero THEN 0
              ELSE Log2Milli(s + i + n, i + n)
        capped == se_cap(se)
    IN  [rsrp_dbm |-> rsrp_dbm, interference_dbm |-> interference_dbm,
         sinr_db |-> sinr_db,
         throughput_mbps |-> IF IsNaN(capped) THEN NaN ELSE 20 * capped]

compute_sinr_and_throughput(t) ==
    IF "rsrp_dbm" \notin t.columns
    THEN [error |-> "Need RSRP to compute SINR.", rows |-> <<>>]
    ELSE [error |-> "",
          rows  |-> [k \in DOMAIN t.rows |->
                       SinrRow(t.rows[k].rsrp_dbm,
                               IF "interference_dbm" \in t.columns
                               THEN t.rows[k].interference_dbm ELSE NegInf)]]

InitSinr ==
    /\ pc = "rows"
    /\ \E columns \in {{}, {"rsrp_dbm"}, {"rsrp_dbm", "interference_dbm"}} :
          data = [columns |-> columns, rows |-> <<>>]
    /\ result = <<>>
    /\ warnings = <<>>
    /\ NoBatch

\* pd.read_csv: one more row; an empty cell is a NaN
LoadSinrRow ==
    /\ pc = "rows"
    /\ Len(data.rows) < MaxSinrRows
    /\ \E r \in {-120000, -100000, -70000, NaN},
          i \in {NegInf, -100000, -90000, PosInf, NaN} :
          /\ ("interference_dbm" \notin data.columns) => i = NegInf
          /\ data' = [data EXCEPT !.rows = Append(@, [rsrp_dbm |-> r,
                                                       interference_dbm |-> i])]
    /\ UNCHANGED <<pc, result, warnings, batchVars>>

RunComputeSinr ==
    /\ pc = "rows"
    /\ result' = compute_sinr_and_throughput(data)
    /\ pc' = "compute_sinr_and_throughput"
    /\ UNCHANGED <<data, warnings, batchVars>>

NextSinr == LoadSinrRow \/ RunComputeSinr

SpecSinr == InitSinr /\ [][NextSinr]_vars

\* The two normalisers of the buildings flag on one buildings_on column.
MaxFlagCells == 2

\* the cells pd.read_csv can produce for the documented flag values
FlagCells ==
    {BoolCell(TRUE), BoolCell(FALSE), IntCell(1), IntCell(0),
     FloatCell(1000), FloatCell(0), FloatCell(NaN)}
        \cup {StrCell(s) : s \in {"true", "1", "on", "yes", "false", "0", "off", "no",
                                  "True", "False", "Off"}}

\* a column has one dtype: bool, int64, float64, or object, whose cells are
\* strings and NaN for the empty ones
OneDtype(col) ==
    LET types == {col[i].type : i \in DOMAIN col}
    IN  \/ Cardinality(types) <= 1
        \/ /\ types = {"str", "float"}
           /\ \A i \in DOMAIN col : col[i].type = "float" => IsNaN(col[i].val)

InitFlags ==
    /\ pc = "cells"
    /\ data = <<>>
    /\ result = <<>>
    /\ warnings = <<>>
    /\ NoBatch

LoadFlagCell ==
    /\ pc = "cells"
    /\ Len(data) < MaxFlagCells
    /\ \E c \in FlagCells :
          /\ OneDtype(Append(data, c))
          /\ data' = Append(data, c)
    /\ UNCHANGED <<pc, result, warnings, batchVars>>

\* ensure_building_flag on a frame whose flag column is buildings_on
RunEnsureBuildingFlag ==
    /\ pc = "cells"
    /\ result' = ensure_building_flag([columns |-> <<"buildings_on">>,
                                       rows |-> [i \in DOMAIN data |->
                                                    [buildings_on |-> data[i]]]])
    /\ pc' = "ensure_building_flag"
    /\ UNCHANGED <<data, warnings, batchVars>>

\* df["buildings_on"].map(...) of load_csv
RunLoadCsvBuildings ==
    /\ pc = "cells"
    /\ result' = [i \in DOMAIN data |-> load_csv_buildings(data[i])]
    /\ pc' = "load_csv"
    /\ UNCHANGED <<data, warnings, batchVars>>

NextFlags ==
    \/ LoadFlagCell
    \/ RunEnsureBuildingFlag
    \/ RunLoadCsvBuildings

SpecFlags == InitFlags /\ [][NextFlags]_vars

\* load_and_normalize on one export with or without a path-loss and a
\* transmit-power column.
MaxPathLossRows == 2

InitPathLoss ==
    /\ pc = "header"
    /\ \E optional \in SUBSET {"path_loss_db", "tx_power_dbm"} :
          data = [readable |-> TRUE,
                  columns  |-> SelectSeq(<<"rsrp_dbm", "frequency_mhz", "distance_m",
                                           "path_loss_db", "tx_power_dbm">>,
                                  LAMBDA c : c \in optional
                                             \/ c \notin {"path_loss_db", "tx_power_dbm"}),
                  rows     |-> <<>>]
    /\ result = <<>>
    /\ warnings = <<>>
    /\ NoBatch

\* pd.read_csv: one more row; an empty cell is a NaN, and so is the cell
\* of a column the header does not have
LoadPathLossRow ==
    /\ pc = "header"
    /\ Len(data.rows) < MaxPathLossRows
    /\ \E rx \in {-20000, NaN}, d \in {10, 20, NaN}, pl \in {60000, NaN},
          tx \in {30000, NaN} :
          /\ (\A c \in DOMAIN data.columns : data.columns[c] # "path_loss_db") => IsNaN(pl)
          /\ (\A c \in DOMAIN data.columns : data.columns[c] # "tx_power_dbm") => IsNaN(tx)
          /\ data' = [data EXCEPT !.rows = Append(@,
                      [rsrp_dbm |-> rx, frequency_mhz |-> 700, distance_m |-> d,
                       path_loss_db |-> pl, tx_power_dbm |-> tx])]
    /\ UNCHANGED <<pc, result, warnings, batchVars>>

RunLoadAndNormalize ==
    /\ pc = "header"
    /\ result' = load_and_normalize([stem |-> "run1", ord |-> 1, table |-> data])
    /\ pc' = "load_and_normalize"
    /\ UNCHANGED <<data, warnings, batchVars>>

NextPathLoss == LoadPathLossRow \/ RunLoadAndNormalize

SpecPathLoss == InitPathLoss /\ [][NextPathLoss]_vars

\* process_csv of MorePlots.py on one file, one analysis step at a time.
InitSteps ==
    /\ pc = "csv"
    /\ script = "process_csv"
    /\ \E t \in Tables : files = <<[stem |-> "run1", ord |-> 1, table |-> t]>>
    /\ idx = 0
    /\ outputs = <<>>
    /\ all_norm = <<>>
    /\ reported = <<>>
    /\ exit = "running"
    /\ data = <<>> /\ result = <<>> /\ warnings = <<>>
    /\ folders = <<>> /\ summary_rows = <<>> /\ printed = <<>>

\* df = load_runs_csv(csv_path); os.makedirs(out_dir): an unreadable file
\* raises out of process_csv
ProcessCsvLoad ==
    /\ pc = "csv"
    /\ IF files[1].table.readable
       THEN pc' = "steps" /\ idx' = 1
       ELSE pc' = "failed" /\ idx' = idx
    /\ UNCHANGED <<metricVars, scenarioVars, files, outputs, all_norm, reported, exit,
                   script>>

OnStepExceptionRaise(step) == [pc |-> "failed", idx |-> step]

\* except Exception as e: print(" [WARN] ..."): the next step follows
OnStepException(step) == [pc |-> "steps", idx |-> step + 1]

\* try: one of the seven steps. A step whose columns are present may still
\* raise after some of its files were written (savefig, to_csv).
ProcessCsvStep ==
    /\ pc = "steps"
    /\ idx \in 1 .. 7
    /\ LET file == files[1]
           st   == StepOutcomes(file.table)[idx]
           dir  == scenario_name_from(file)
       IN  \/ /\ st.status = "OK"
              /\ outputs' = WriteAll(outputs, dir, st.writes, file.table.rows)
              /\ printed' = Append(printed, [step |-> st.step, status |-> "OK"])
              /\ pc' = "steps" /\ idx' = idx + 1
           \/ /\ st.status = "SKIP"
              /\ printed' = Append(printed, [step |-> st.step, status |-> "SKIP"])
              /\ pc' = "steps" /\ idx' = idx + 1
              /\ UNCHANGED outputs
           \/ /\ st.status \in {"OK", "WARN"}
              /\ \E n \in 0 .. (Len(st.writes) - 1) :
                    /\ st.status = "WARN" => n = 0
                    /\ outputs' = WriteAll(outputs, dir, SubSeq(st.writes, 1, n),
                                           file.table.rows)
              /\ printed' = Append(printed, [step |-> st.step, status |-> "WARN"])
              /\ pc' = OnStepException(idx).pc
              /\ idx' = OnStepException(idx).idx
    /\ UNCHANGED <<metricVars, folders, summary_rows, files, all_norm, reported, exit,
                   script>>

\* print(f" Done: {scenario}")
ProcessCsvDone ==
    /\ pc = "steps"
    /\ idx = 8
    /\ printed' = Append(printed, [step |-> "Done", status |-> scenario_name_from(files[1])])
    /\ pc' = "done"
    /\ UNCHANGED <<metricVars, folders, summary_rows, files, idx, outputs, all_norm,
                   reported, exit, script>>

NextSteps == ProcessCsvLoad \/ ProcessCsvStep \/ ProcessCsvDone

\* process_csv runs to its end: no statement waits
SpecSteps == InitSteps /\ [][NextSteps]_vars /\ WF_vars(NextSteps)

---------------------------------------------------------------------------
(* Vocabulary of the properties *)

RefRows == GroupOf(data, REFERENCE_MODEL)

Candidates == Models \ {REFERENCE_MODEL}

Present(m) == GroupOf(data, m) # <<>>

\* model m has a row at a Distance at which the reference model has a row
SharesDistance(m) ==
    \E i, j \in DOMAIN data :
        /\ data[i].PropagationModel = m
        /\ data[j].PropagationModel = REFERENCE_MODEL
        /\ data[i].Distance = data[j].Distance

\* every pair (row of m, reference row) at one Distance has both powers
MatchedPairsNumeric(m) ==
    \A i, j \in DOMAIN data :
        ( /\ data[i].PropagationModel = m
          /\ data[j].PropagationModel = REFERENCE_MODEL
          /\ data[i].Distance = data[j].Distance )
        => ~IsNaN(data[i].RxSignalStrength) /\ ~IsNaN(data[j].RxSignalStrength)

HasEntry(m) == \E i \in DOMAIN result : result[i].model = m

HasRow(m) == \E i \in DOMAIN result : result[i].Model = m

RowOf(m) == result[CHOOSE i \in DOMAIN result : result[i].Model = m]

Warned(w) == \E i \in DOMAIN warnings : warnings[i] = w

---------------------------------------------------------------------------
(* C1. compute_metrics_vs_reference, reference model present: a candidate  *)
(* model that shares no Distance with the reference has no entry in the    *)
(* returned metrics and a no-overlap warning is printed for it; every      *)
(* candidate that shares at least one Distance has an entry.               *)
C1_NoOverlapOmitted ==
    (pc = "vs_reference" /\ RefRows # <<>>) =>
        \A m \in Candidates :
            /\ (Present(m) /\ ~SharesDistance(m)) =>
                    ~HasEntry(m) /\ Warned(NoOverlapWarning(m))
            /\ ~Present(m) => ~HasEntry(m)
            /\ SharesDistance(m) => HasEntry(m)

C1_Witness ==
    /\ pc = "vs_reference"
    /\ RefRows # <<>>
    /\ \E m1, m2 \in Candidates :
          /\ Present(m1) /\ ~SharesDistance(m1) /\ ~HasEntry(m1)
          /\ SharesDistance(m2) /\ HasEntry(m2)

C3_EmptyReferenceUndefined ==
    (RefRows = <<>> /\ pc \in {"vs_reference", "compute_metrics", "compute_metrics_s2plot"}) =>
        /\ Warned(NoReferenceWarning(REFERENCE_MODEL))
        /\ pc = "vs_reference" => result = <<>>
        /\ pc # "vs_reference" =>
              \A i \in DOMAIN result : IsNaN(result[i].RMSE) /\ IsNaN(result[i].Bias)

---------------------------------------------------------------------------
(* Vocabulary for aligned sampling *)

DistancesOf(m) == {data[i].Distance : i \in {j \in DOMAIN data : data[j].PropagationModel = m}}

DistinctDistances(m) == Cardinality(DistancesOf(m)) = Len(GroupOf(data, m))

Samples(m) ==
    LET g == GroupOf(data, m)
    IN  [i \in DOMAIN g |-> <<g[i].Distance, g[i].RxSignalStrength>>]

EntryOf(m) == result[CHOOSE i \in DOMAIN result : result[i].model = m]

\* m and the reference are sampled at the same pairwise distinct distances and
\* m's power is the reference's power plus k at each of them
ConstantOffset(m, k) ==
    /\ RefRows # <<>>
    /\ DistinctDistances(m) /\ DistinctDistances(REFERENCE_MODEL)
    /\ DistancesOf(m) = DistancesOf(REFERENCE_MODEL)
    /\ \A i, j \in DOMAIN data :
          ( /\ data[i].PropagationModel = m
            /\ data[j].PropagationModel = REFERENCE_MODEL
            /\ data[i].Distance = data[j].Distance )
          => /\ ~IsNaN(data[i].RxSignalStrength) /\ ~IsNaN(data[j].RxSignalStrength)
             /\ data[i].RxSignalStrength = data[j].RxSignalStrength + k

Offsets == {-5000, 0, 5000}

Abs(k) == IF k < 0 THEN -k ELSE k

(* C9. The error metrics of a model against itself are RMSE = 0 and        *)
(* bias = 0: for a candidate whose samples are exactly the reference's     *)
(* samples (every power present, distances possibly repeated), aligned by  *)
(* the inner join on Distance, and in the row compute_metrics reports for  *)
(* the reference model.                                                    *)
C9_SelfAlignmentZero ==
    /\ pc = "vs_reference" =>
          \A m \in Candidates :
              (Present(m) /\ Samples(m) = Samples(REFERENCE_MODEL)) =>
                  HasEntry(m) /\ EntryOf(m).rmse = 0 /\ EntryOf(m).bias = 0
    /\ pc = "compute_metrics" =>
          /\ \A m \in Candidates :
                (Present(m) /\ Samples(m) = Samples(REFERENCE_MODEL)) =>
                    HasRow(m) /\ RowOf(m).RMSE = 0 /\ RowOf(m).Bias = 0
          /\ RefRows # <<>> =>
                HasRow(REFERENCE_MODEL)
                    /\ RowOf(REFERENCE_MODEL).RMSE = 0 /\ RowOf(REFERENCE_MODEL).Bias = 0

(* C10. A candidate sampled at the same pairwise distinct distances as the *)
(* reference, with received power equal to the reference's plus a constant *)
(* k at every distance, is reported with RMSE = |k| and bias = k, by       *)
(* compute_metrics_vs_reference and by compute_metrics.                    *)
C10_ConstantOffset ==
    \A m \in Candidates : \A k \in Offsets :
        ConstantOffset(m, k) =>
            /\ pc = "vs_reference" =>
                  HasEntry(m) /\ EntryOf(m).rmse = Abs(k) /\ EntryOf(m).bias = k
            /\ pc = "compute_metrics" =>
                  HasRow(m) /\ RowOf(m).RMSE = Abs(k) /\ RowOf(m).Bias = k

C10_Witness ==
    /\ pc = "vs_reference"
    /\ ConstantOffset("LogD", -5000)
    /\ Cardinality(DistancesOf("LogD")) = 2
    /\ EntryOf("LogD").rmse = 5000
    /\ EntryOf("LogD").bias = -5000


---------------------------------------------------------------------------
(* Properties of the batch scripts *)

\* whether the script's loader accepts the file, and the error otherwise
Loads(s, f) ==
    IF s = "ResultsAnalyzer" THEN load_and_normalize(f).ok
    ELSE IF s = "MorePlots" THEN process_csv(f, <<>>).ok
    ELSE load_csv(f).ok

ErrorOf(s, f) ==
    IF s = "ResultsAnalyzer" THEN load_and_normalize(f).error
    ELSE IF s = "MorePlots" THEN process_csv(f, <<>>).error
    ELSE load_csv(f).error

GoodFiles(s, fs) == SelectSeq(fs, LAMBDA f : Loads(s, f))

BadFiles(s, fs) == SelectSeq(fs, LAMBDA f : ~Loads(s, f))

FramesOf(s, fs) ==
    [i \in DOMAIN fs |-> IF s = "ResultsAnalyzer" THEN load_and_normalize(fs[i]).frame
                         ELSE load_csv(fs[i]).frame]

RECURSIVE PerFileOutputs(_, _, _)
\* the per-file outputs of a run over fs in which no file fails
PerFileOutputs(s, fs, outs) ==
    IF fs = <<>> THEN outs
    ELSE PerFileOutputs(s, Tail(fs),
            IF s = "ResultsAnalyzer"
            THEN WriteRunOutputs(outs, Head(fs).stem, load_and_normalize(Head(fs)).frame)
            ELSE process_csv(Head(fs), outs).outputs)

\* the end state of the script run on the loadable files alone
AsIfRunOn(s, good) ==
    CASE s = "ResultsAnalyzer" ->
            LET frames == FramesOf(s, good)
            IN  /\ all_norm = frames
                /\ outputs = WriteCombinedOutputs(PerFileOutputs(s, good, <<>>), frames)
      [] s = "MorePlots" ->
            outputs = PerFileOutputs(s, good, <<>>)
      [] s = "Plot" ->
            LET frames == FramesOf(s, good)
            IN  /\ all_norm = frames
                /\ IF good = <<>> THEN outputs = <<>>
                   ELSE LET big == Concat(frames)
                        IN  \E buildings_filter \in {"ON", "OFF", "BOTH"},
                               fspl_ref \in BOOLEAN, min_points \in {1, 3} :
                               outputs = plot_overlays(big, buildings_filter, fspl_ref,
                                                       min_points)

\* C4: in the main loops over input files (ResultsAnalyzer.main,
\* MorePlots.main, Plot.prepare_all), every file whose loading raises is
\* reported, in order, and the frames and outputs at the end are exactly
\* those of a run over the input with the failing files removed.
C4_FailureIsolation ==
    (pc = "done" /\ script \in Scripts /\ files # <<>>) =>
        LET bad == BadFiles(script, files)
        IN  /\ reported = [i \in DOMAIN bad |-> Failure(bad[i], ErrorOf(script, bad[i]))]
            /\ AsIfRunOn(script, GoodFiles(script, files))

\* a failing file was followed by a loadable one, and outputs were written
C4_Witness ==
    /\ pc = "done"
    /\ script \in Scripts
    /\ \E i, j \in DOMAIN files :
          i < j /\ ~Loads(script, files[i]) /\ Loads(script, files[j])
    /\ reported # <<>>
    /\ outputs # <<>>

\* C5 (as claimed): in the loop over SCENARIOS of Plot_Lte_5g.main and
\* S2_plot_and_metrics.main, a scenario that fails to load does not stop the
\* others: when main has ended, the printed summary holds a row for every
\* scenario whose folder loads and has rows after the filters.
C5_ScenarioFailureIsolated ==
    (pc = "done" /\ script \in ScenarioScripts) =>
        \A k \in DOMAIN SCENARIOS :
            (/\ load_scenario(folders[k]).ok
             /\ Filtered(SCENARIOS[k], load_scenario(folders[k]).data) # <<>>)
            => \E i \in DOMAIN printed : printed[i].Scenario = SCENARIOS[k].id

HasRxPowerAlias(t) == pick_col(t.columns, RxPowerAliases) # None

\* the files ResultsAnalyzer.main has gone through so far
Handled == IF pc = "done" THEN DOMAIN files ELSE 1 .. (idx - 1)

FrameOfFile(file) ==
    {k \in DOMAIN all_norm :
        \E r \in DOMAIN all_norm[k] : all_norm[k][r].file = NameOf(file)}

OutputsOfFile(stem) == {q \in DOMAIN outputs : q[2] = stem}

\* C6: load_and_normalize on a table without any received-power alias
\* column ends in the error that names the missing received-power column and
\* yields no records; ResultsAnalyzer.main reports it, writes no per-run
\* output for the file and adds nothing of it to the combined dataset.
\* (The first conjunct is about the function on the tables alone; it is
\* evaluated once, before a file is listed.)
C6_MissingRxPowerFails ==
    /\ (files = <<>>) =>
        \A t \in Tables : (t.readable /\ ~HasRxPowerAlias(t)) =>
          LET r == load_and_normalize([stem |-> "run1", ord |-> 1, table |-> t])
          IN  ~r.ok /\ r.error = MissingRxPowerError /\ r.frame = <<>>
    /\ (script = "ResultsAnalyzer" /\ pc \in {"loop", "done"}) =>
          \A i \in Handled :
             (files[i].table.readable /\ ~HasRxPowerAlias(files[i].table)) =>
                /\ \E k \in DOMAIN reported :
                      reported[k] = Failure(files[i], MissingRxPowerError)
                /\ OutputsOfFile(files[i].stem) = {}
                /\ FrameOfFile(files[i]) = {}

\* ResultsAnalyzer.main finished a batch that held a file without received
\* power and a file it could normalise
C6_Witness ==
    /\ script = "ResultsAnalyzer"
    /\ pc = "done"
    /\ \E i \in DOMAIN files :
          files[i].table.readable /\ ~HasRxPowerAlias(files[i].table)
    /\ all_norm # <<>>

\* neither a distance alias nor all six position columns
NoDistanceSource(t) ==
    /\ pick_col(t.columns, <<"distance_m", "distance", "rx_tx_distance_m">>) = None
    /\ \E c \in { <<"rx_x", "rx_world_x", "rxX">>, <<"rx_y", "rx_world_y", "rxY">>,
                   <<"rx_z", "rx_world_z", "rxZ">>, <<"tx_x", "tx_world_x", "txX">>,
                   <<"tx_y", "tx_world_y", "txY">>, <<"tx_z", "tx_world_z", "txZ">> } :
          pick_col(t.columns, c) = None

C8_NoInputFails ==
    (pc = "done" /\ script \in Scripts /\ files = <<>>) =>
        /\ exit \in {"status 1", "status 2", "exception"}
        /\ outputs = <<>>

---------------------------------------------------------------------------
(* Row order *)

\* the rows with rows i and i + 1 exchanged
Exchanged(df, i) ==
    [k \in DOMAIN df |-> IF k = i THEN df[i + 1] ELSE IF k = i + 1 THEN df[i] ELSE df[k]]

EntrySet(metrics) == {metrics[i] : i \in DOMAIN metrics}

\* C11: the metrics compute_metrics_vs_reference returns do not depend on
\* the order of the input rows: the set of models reported and the
\* (RMSE, bias) pair of each are the same after two neighbouring rows are
\* exchanged. Every row list is a state and every permutation is a sequence
\* of such exchanges, so the metrics are the same for every permutation of
\* the rows.
C11_RowOrderIndependent ==
    (pc = "vs_reference") =>
        \A i \in 1 .. (Len(data) - 1) :
            EntrySet(compute_metrics_vs_reference(Exchanged(data, i),
                                                  REFERENCE_MODEL).metrics)
                = EntrySet(result)

\* a model was scored from two rows that differ and share their distance
\* with a reference row, so that reordering changes the join's row order
C11_Witness ==
    /\ pc = "vs_reference"
    /\ result # <<>>
    /\ \E m \in Candidates : \E i, j \in DOMAIN data :
          /\ i < j
          /\ data[i].PropagationModel = m /\ data[j].PropagationModel = m
          /\ data[i].Distance = data[j].Distance
          /\ data[i].RxSignalStrength # data[j].RxSignalStrength
          /\ HasEntry(m)

---------------------------------------------------------------------------
(* Path loss of a model group *)

\* the samples the routine that ran averages over: S2_plot_and_metrics
\* keeps the rows with a finite received power, S2_error_metrics all rows
SamplesOfGroup(m) ==
    IF pc = "compute_metrics_s2plot"
    THEN SelectSeq(GroupOf(data, m), LAMBDA r : ~IsNaN(r.RxSignalStrength))
    ELSE GroupOf(data, m)

\* mean over the group's samples of each sample's own TxPower minus its
\* RxSignalStrength
OwnMeanPathLoss(sub) ==
    IF sub = <<>> THEN NaN ELSE
    NumpyMean([i \in DOMAIN sub |-> FSub(sub[i].TxPower, sub[i].RxSignalStrength)])

\* the same less the free-space loss at the sample's own distance and frequency
OwnMeanExcessPathLoss(sub) ==
    IF sub = <<>> THEN NaN ELSE
    NumpyMean([i \in DOMAIN sub |->
        FSub(FSub(sub[i].TxPower, sub[i].RxSignalStrength),
             fspl_db(sub[i].Distance, sub[i].TxFrequency))])

\* C12 (as claimed): in compute_metrics the mean path loss and the mean
\* excess path loss of every model group are the means of the per-sample
\* values taken with each sample's own TxPower, Distance and TxFrequency,
\* also when the rows of the group differ in TxPower or TxFrequency.
C12_PerSamplePathLoss ==
    (pc \in {"compute_metrics", "compute_metrics_s2plot"}) =>
        \A i \in DOMAIN result :
            LET sub == SamplesOfGroup(result[i].Model)
            IN  /\ result[i].Mean_PL_dB = OwnMeanPathLoss(sub)
                /\ result[i].Mean_ExcessPL_dB = OwnMeanExcessPathLoss(sub)

\* C27 (as claimed): ensure_building_flag of ResultsAnalyzer returns ON for a
\* raw flag value (True, False, 1, 0, 1.0, 0.0, missing, or one of the
\* documented strings in any case) exactly when the load_csv mapping of
\* Plot.py / Plot2.py returns ON for it.
C27_FlagNormalisersAgree ==
    /\ (pc = "ensure_building_flag") =>
          \A i \in DOMAIN result :
              (result[i] = "ON") <=> (load_csv_buildings(data[i]) = "ON")
    /\ (pc = "load_csv") =>
          \A i \in DOMAIN result : (result[i] = "ON") <=> (norm(data[i]) = "ON")

\* the scenario whose row counts were printed, and its filtered rows
ScenarioOf(line) == CHOOSE k \in DOMAIN SCENARIOS : SCENARIOS[k].id = line.scenario

FilteredOf(k) == Filtered(SCENARIOS[k], load_scenario(folders[k]).data)

\* C29 (as claimed): in the LOS/NLOS split of Plot_Lte_5g.main and
\* S2_plot_and_metrics.main every filtered row is in exactly one of the LOS
\* set (Distance <= los_max_distance) and the NLOS set (Distance >
\* los_max_distance): the printed LOS and NLOS row counts add up to the
\* number of filtered rows and are the sizes of the two sets the metrics
\* use, also when a Distance cell is missing.
C29_SplitPartitions ==
    (script \in ScenarioScripts) =>
        \A i \in DOMAIN warnings :
            LET k   == ScenarioOf(warnings[i])
                cfg == SCENARIOS[k]
                df  == FilteredOf(k)
            IN  /\ warnings[i].los_rows + warnings[i].nlos_rows = Len(df)
                /\ warnings[i].los_rows = Len(los_data(cfg, df))
                /\ warnings[i].nlos_rows = Len(nlos_data(cfg, df))
                /\ Len(los_data(cfg, df)) + Len(nlos_data(cfg, df)) = Len(df)

HasPathLossColumn == \E i \in DOMAIN data.columns : data.columns[i] = "path_loss_db"

HasTxPowerColumn == \E i \in DOMAIN data.columns : data.columns[i] = "tx_power_dbm"

\* the analytical FSPL of row i of the export
RowFspl(i) == fspl_db_empirical(data.rows[i].distance_m, data.rows[i].frequency_mhz)

\* the value the resolution order picks for row i, NaN when it is missing
ResolvedPathLoss(i) ==
    IF HasPathLossColumn THEN data.rows[i].path_loss_db
    ELSE IF HasTxPowerColumn THEN FSub(data.rows[i].tx_power_dbm, data.rows[i].rsrp_dbm)
    ELSE NaN

PathsWritten(file) == DOMAIN process_csv(file, <<>>).outputs

\* C28 (as claimed): within one invocation of MorePlots.main, two distinct
\* input files never write to the same output path, whatever the files and
\* the contents of their scenario columns are.
C28_NoOutputCollision ==
    (script = "MorePlots" /\ pc \in {"loop", "done"}) =>
        \A i, j \in DOMAIN files :
            (i < j /\ j < idx) =>
                PathsWritten(files[i]) \cap PathsWritten(files[j]) = {}

\* the (model, rmse, mean_bias) tuples a loop collected, as a set
TuplesOf(r) == {r.rows[i] : i \in DOMAIN r.rows}

\* C26 (as claimed): the loop of ErrorMetrics.py computes what evaluate_vs_fspl
\* of S1_plot_and_metrics computes: it ends without an exception, every
\* theoretical vector has the length of the model's simulated vector, and
\* the (model, RMSE, mean bias) tuples of the two scripts are equal, also
\* for exports with two or more models.
C26_ErrorMetricsAgree ==
    (pc = "ErrorMetrics") =>
        /\ ~result.raised
        /\ \A i \in DOMAIN result.rows : result.rows[i].n_theory = result.rows[i].n_sim
        /\ TuplesOf(result) = TuplesOf(evaluate_vs_fspl(data))

---------------------------------------------------------------------------
(* Rows of the summary tables *)

\* the distinct (scenario, model, buildings) combinations of an export
InputCombos(t) ==
    {<<t.rows[i].scenario, t.rows[i].model, t.rows[i].buildings_on>> : i \in DOMAIN t.rows}

AllInputCombos == UNION {InputCombos(files[i].table) : i \in DOMAIN files}

\* C13 (as claimed): every summary table ResultsAnalyzer writes has exactly
\* one row per distinct (scenario, model, buildings) combination of its
\* input: the per-run summary for the combinations of its file, the combined
\* summary for the combinations of all files.
C13_OneRowPerCombination ==
    (script = "ResultsAnalyzer" /\ pc = "done"
        /\ \A i \in DOMAIN files : HasCol(files[i].table, "scenario")) =>
        /\ \A i \in DOMAIN files :
              Len(outputs[<<"summary__", files[i].stem>>])
                  = Cardinality(InputCombos(files[i].table))
        /\ (Len(all_norm) >= 2) =>
              Len(outputs[<<"summary__", "combined">>]) = Cardinality(AllInputCombos)

---------------------------------------------------------------------------
(* Coverage *)

\* the samples at or above a threshold; a missing value is not
Covered(th) == {j \in DOMAIN data : ~IsNaN(data[j]) /\ data[j] >= th}

C15_CoverageMonotone ==
    (pc = "coverage") =>
        \A i, j \in DOMAIN result :
            (result[i].threshold <= result[j].threshold) =>
                result[i].ratio >= result[j].ratio

C15_Witness ==
    /\ pc = "coverage"
    /\ result[1].threshold < result[2].threshold
    /\ result[1].ratio > result[2].ratio
    /\ result[2].ratio > 0

\* C16 (as claimed): on every sample vector of a loaded model group, the
\* coverage ratio at a threshold of minus infinity is 100% and at plus
\* infinity 0%.
C16_CoverageAtInfinity ==
    (pc = "coverage") =>
        \A i \in DOMAIN result :
            /\ (result[i].threshold = NegInf) => result[i].ratio = 100000
            /\ (result[i].threshold = PosInf) => result[i].ratio = 0

\* C17 (as claimed): for a list of pairwise distinct thresholds, whole or
\* fractional and in any order, each coverage output (the table of
\* plot_frequency_compare, the columns of compute_metrics) holds one value
\* per threshold, equal to the coverage computed for that threshold alone
\* over the same samples.
C17_ThresholdsIndependent ==
    (pc = "coverage_table") =>
        LET ths == result.thresholds
        IN  /\ Cardinality(DOMAIN result.table) = Len(ths)
            /\ Cardinality(DOMAIN result.columns) = Len(ths)
            /\ \A i \in DOMAIN ths :
                  /\ result.table[<<"pct_ge_", IntOf(ths[i])>>]
                         = coverage_percent(data, ths[i])
                  /\ result.columns[<<"Coverage >= ", ths[i], " dBm [%]">>]
                         = coverage_ratio(data, ths[i])

---------------------------------------------------------------------------
(* Free-space path loss of zero and negative arguments *)

\* 20 log10 of an argument clamped to a positive epsilon, in milli-dB
ClampedDb20Log10(x, epsilon_db) == IF x <= 0 THEN epsilon_db ELSE Db20Log10(x)

\* the path loss at max(distance, 1 mm) and max(frequency, 1e-6 MHz)
ClampedPathLoss ==
    LET d_db == ClampedDb20Log10(data.distance_m, -60000)
        f_db == ClampedDb20Log10(data.frequency_mhz, -120000)
    IN  IF pc = "S2_error_metrics.fspl_db" THEN WavelengthConstDb + d_db + f_db
        ELSE EmpiricalConstDb + d_db - 60000 + f_db

FsplCalls == {"S2_error_metrics.fspl_db", "ResultsAnalyzer.fspl_db", "MorePlots._fspl_db"}

\* C18 (as claimed): every fspl_db / _fspl_db, called with a zero or negative
\* distance or frequency, clamps it to a small positive epsilon (distance to
\* at least 1 mm, frequency to at least 1e-6 MHz) and returns a finite path
\* loss; none raises or returns an undefined value.
C18_FsplClamps ==
    (pc \in FsplCalls /\ (data.distance_m <= 0 \/ data.frequency_mhz <= 0)) =>
        /\ ~result.raised
        /\ ~IsNaN(result.value)
        /\ result.value = ClampedPathLoss

---------------------------------------------------------------------------
(* Alias resolution *)

\* the columns whose name equals a candidate, ignoring case
MatchesOf(cand) ==
    {data.columns[i] : i \in {j \in DOMAIN data.columns :
                                  Lower(data.columns[j]) = Lower(cand)}}

MatchingCandidates == {j \in DOMAIN data.candidates : MatchesOf(data.candidates[j]) # {}}

\* C19: pick_col returns a column of df whose name matches, ignoring case,
\* the earliest candidate that matches any column, and None exactly when no
\* candidate matches a column; the returned name is a column of df.
C19_PickColFirstMatch ==
    (pc = "pick_col") =>
        /\ (result = None) <=> (MatchingCandidates = {})
        /\ (MatchingCandidates # {}) =>
              LET first == CHOOSE j \in MatchingCandidates :
                               \A k \in MatchingCandidates : j <= k
              IN  /\ result \in MatchesOf(data.candidates[first])
                  /\ \E i \in DOMAIN data.columns : data.columns[i] = result

C19_Witness ==
    /\ pc = "pick_col"
    /\ data.candidates = <<"freq_hz", "rsrp">>
    /\ data.columns = <<"frequency", "RSRP">>
    /\ result = "RSRP"

HasColumn(name) == \E i \in DOMAIN data.columns : data.columns[i] = name

\* C20 (as claimed): ensure_frequency_mhz takes the first alias present in
\* the documented order: a Hz-named column divided by 1e6, then a MHz-named
\* column, then the 'frequency' column; a table with a Hz-named and a
\* MHz-named column gives the Hz column divided by 1e6.
C20_FrequencyAliasOrder ==
    (pc = "ensure_frequency_mhz") =>
        /\ HasColumn("freq_hz") => result = <<700>>
        /\ (~HasColumn("freq_hz") /\ HasColumn("frequency_mhz")) => result = <<2100>>
        /\ (~HasColumn("freq_hz") /\ ~HasColumn("frequency_mhz") /\ HasColumn("frequency"))
              => result = <<3500>>

---------------------------------------------------------------------------
(* Buildings flag *)

\* C21 (as claimed): ensure_building_flag maps every encoding of the
\* buildings flag, the case of no buildings column included, to one of the
\* two canonical values ON and OFF: every record ResultsAnalyzer has
\* normalised carries one of the two.
C21_BuildingFlagCanonical ==
    (script = "ResultsAnalyzer") =>
        \A k \in DOMAIN all_norm : \A r \in DOMAIN all_norm[k] :
            all_norm[k][r].buildings \in {"ON", "OFF"}

---------------------------------------------------------------------------
(* Throughput *)

\* bandwidth_hz x 7.6 / 1e6 at 20 MHz, in kbit/s
ThroughputCeiling == 20 * 7600

InRange(row) ==
    /\ ~IsNaN(row.throughput_mbps)
    /\ row.throughput_mbps >= 0
    /\ row.throughput_mbps <= ThroughputCeiling

---------------------------------------------------------------------------
(* The two forms of the free-space path loss *)

\* C23 (as claimed): for a distance d > 0 and a frequency f > 0 the
\* wavelength form (10 log10((4 pi d / lambda)^2), C = 3e8) and the
\* empirical form (32.44 + 20 log10(f_MHz) + 20 log10(d_km)) agree within
\* 1e-9 relative error: in thousandths of a dB the two values are equal.
C23_FsplFormsAgree ==
    (data.distance_m > 0 /\ data.frequency_mhz > 0) =>
        /\ (pc = "S2_error_metrics.fspl_db") =>
              result.value = fspl_db_empirical(data.distance_m, data.frequency_mhz)
        /\ (pc = "ResultsAnalyzer.fspl_db") =>
              result.value = fspl_db_clamped(data.distance_m, data.frequency_mhz)

---------------------------------------------------------------------------
(* The seven analysis steps of process_csv *)

StepNames ==
    <<"corner_nlos", "canyon_reflection", "material_sweep", "frequency_compare",
      "sinr_throughput", "model_ablation", "buildings_delta">>

\* each of the seven steps printed one outcome, in order, then Done
AllStepsReported ==
    /\ Len(printed) = 8
    /\ \A k \in 1 .. 7 :
          printed[k].step = StepNames[k] /\ printed[k].status \in {"OK", "SKIP", "WARN"}
    /\ printed[8].step = "Done"

\* C24: in process_csv, once the CSV is loaded and the output directory
\* made, each of the seven analysis steps ends in exactly one of OK, SKIP or
\* WARN, an exception inside a step does not prevent a later step, and the
\* final Done message is always reached.
C24_StepsIsolated == (pc = "steps") ~> (pc = "done" /\ AllStepsReported)

\* a step failed, a later step succeeded and Done was printed
C24_Witness ==
    /\ pc = "done"
    /\ AllStepsReported
    /\ \E k, l \in 1 .. 7 :
          k < l /\ printed[k].status = "WARN" /\ printed[l].status = "OK"

---------------------------------------------------------------------------
(* Error terms of the join on Distance *)

\* the rows of model m whose Distance occurs in the reference group
MatchedRows(m) ==
    {i \in DOMAIN data :
        /\ data[i].PropagationModel = m
        /\ \E j \in DOMAIN RefRows : RefRows[j].Distance = data[i].Distance}

\* C25 (as claimed): in the inner join on Distance used for RMSE and bias,
\* each row of a model contributes at most one error term: the number of
\* error terms of a model equals the number of its rows whose Distance
\* occurs in the reference group, also when the reference group holds
\* several rows of one Distance.
C25_OneErrorTermPerRow ==
    (pc \in {"vs_reference", "compute_metrics"}) =>
        \A m \in Candidates :
            Len(ErrOf(Merge(GroupOf(data, m), RefRows))) = Cardinality(MatchedRows(m))

=============================================================================
